---- MODULE Spec2Model ----
(***************************************************************************)
(* A model of the document-mutation command layer of mcp-docx-server.      *)
(*                                                                         *)
(* Every tool call is load -> mutate in memory -> save.  The file system   *)
(* is the only state that survives a call, so the state of the model is    *)
(* the file system, the last two calls with what they returned, and the    *)
(* file system as it was before the last call.  Where two clients call    *)
(* at once, inflight holds what each client's call has loaded and not yet  *)
(* saved.                                                                  *)
(*                                                                         *)
(* Text is a sequence of one-character strings.  A style name, a message   *)
(* tag and an enumerated keyword is a TLA+ string.  An option value that   *)
(* arrives in a formatting or properties map is a tagged record (see       *)
(* NoneVal, Num, Str, Bool): a number is given in hundredths, so Num(850)  *)
(* is the Python value 8.5.                                                *)
(***************************************************************************)
EXTENDS Integers, Sequences, FiniteSets, TLC

VARIABLES fs, prev, call, ret, pcall, pret, inflight

vars == <<fs, prev, call, ret, pcall, pret, inflight>>

-----------------------------------------------------------------------------
(* Bounds of the model *)

\* most block elements a document body may hold for a content-adding call to be taken
MaxBody == 2
\* most characters in a title
MaxTitle == 2
\* most runs a document may hold for add_formatted_text to be taken
MaxRuns == 2
\* most sections a document may hold for add_section to be taken
MaxSections == 4

-----------------------------------------------------------------------------
(* Python values and strings *)

NoneVal == [t |-> "none"]
Num(v) == [t |-> "num", v |-> v]
Str(s) == [t |-> "str", s |-> s]
Bool(b) == [t |-> "bool", b |-> b]

NL == "\n"

\* the characters str.strip() removes, among those the model uses
Whitespace == {" ", NL}

RECURSIVE SplitAt(_, _, _)
SplitAt(s, sep, cur) ==
  IF s = <<>> THEN <<cur>>
  ELSE IF Head(s) = sep THEN <<cur>> \o SplitAt(Tail(s), sep, <<>>)
  ELSE SplitAt(Tail(s), sep, Append(cur, Head(s)))

\* s.split(sep): the pieces between the separators, always at least one piece
Split(s, sep) == SplitAt(s, sep, <<>>)

RECURSIVE LStrip(_)
LStrip(s) == IF s # <<>> /\ Head(s) \in Whitespace THEN LStrip(Tail(s)) ELSE s

RECURSIVE RStrip(_)
RStrip(s) ==
  IF s # <<>> /\ s[Len(s)] \in Whitespace THEN RStrip(SubSeq(s, 1, Len(s) - 1)) ELSE s

\* s.strip()
Strip(s) == RStrip(LStrip(s))

RECURSIVE Join(_, _)
\* sep.join(parts)
Join(parts, sep) ==
  IF parts = <<>> THEN <<>>
  ELSE IF Len(parts) = 1 THEN parts[1]
  ELSE parts[1] \o <<sep>> \o Join(Tail(parts), sep)

\* s.lower() on the style-type keywords the model passes
Lower(s) ==
  CASE s = "TABLE" -> "table"
    [] s = "Heading" -> "heading"
    [] s = "Paragraph" -> "paragraph"
    [] OTHER -> s

\* s.upper() on the alignment, orientation and start-type keywords the model passes
Upper(s) ==
  CASE s = "center" -> "CENTER"
    [] s = "landscape" -> "LANDSCAPE"
    [] s = "portrait" -> "PORTRAIT"
    [] s = "continuous" -> "CONTINUOUS"
    [] s = "new_page" -> "NEW_PAGE"
    [] s = "even_page" -> "EVEN_PAGE"
    [] OTHER -> s

\* dict.get(key): None when the key is absent
Get(map, key) == IF key \in DOMAIN map THEN map[key] ELSE NoneVal

\* dict.get(key, default)
GetOr(map, key, default) == IF key \in DOMAIN map THEN map[key] ELSE default

\* Python truthiness of an option value (bool(x), "if x:")
Truthy(x) ==
  CASE x.t = "none" -> FALSE
    [] x.t = "bool" -> x.b
    [] x.t = "num" -> x.v # 0
    [] x.t = "str" -> x.s # ""

-----------------------------------------------------------------------------
(* The document library: styles *)

NoFile == [kind |-> "nofile"]

\* what Styles.__getitem__ has found when it raises KeyError
NoStyle == [name |-> "", style_id |-> "", type |-> "none", default |-> FALSE]

\* the styles of the library's default template that the model uses
DefaultStyles ==
  { [name |-> "Normal", style_id |-> "Normal", type |-> "paragraph", default |-> TRUE],
    [name |-> "heading 1", style_id |-> "Heading1", type |-> "paragraph", default |-> FALSE],
    [name |-> "Title", style_id |-> "Title", type |-> "paragraph", default |-> FALSE],
    [name |-> "header", style_id |-> "Header", type |-> "paragraph", default |-> FALSE],
    [name |-> "footer", style_id |-> "Footer", type |-> "paragraph", default |-> FALSE],
    [name |-> "Default Paragraph Font", style_id |-> "DefaultParagraphFont",
     type |-> "character", default |-> TRUE],
    [name |-> "Normal Table", style_id |-> "TableNormal", type |-> "table", default |-> TRUE],
    [name |-> "Table Grid", style_id |-> "TableGrid", type |-> "table", default |-> FALSE] }

\* the library stores built-in names in lower case and shows them capitalised
ui2internal(name) ==
  CASE name = "Heading 1" -> "heading 1"
    [] name = "Header" -> "header"
    [] name = "Footer" -> "footer"
    [] OTHER -> name

internal2ui(name) ==
  CASE name = "heading 1" -> "Heading 1"
    [] name = "header" -> "Header"
    [] name = "footer" -> "Footer"
    [] OTHER -> name

\* style.name
StyleName(s) == internal2ui(s.name)

\* document.styles[key]: by name, else by style id, else KeyError (NoStyle)
StylesGetItem(doc, key) ==
  LET byName == {s \in doc.styles : s.name = ui2internal(key)}
      byId == {s \in doc.styles : s.style_id = key}
  IN IF byName # {} THEN CHOOSE s \in byName : TRUE
     ELSE IF byId # {} THEN CHOOSE s \in byId : TRUE
     ELSE NoStyle

\* what assigning a style by name does: KeyError when the name is not in the
\* document, ValueError when the style is of another kind, else the style id
\* to store ("" for the kind's default style)
get_style_id(doc, name, type) ==
  LET s == StylesGetItem(doc, name)
  IN IF s = NoStyle THEN [exc |-> "KeyError", id |-> ""]
     ELSE IF s.type # type THEN [exc |-> "ValueError", id |-> ""]
     ELSE [exc |-> "", id |-> IF s.default THEN "" ELSE s.style_id]

style_exists(document, style_name, style_type) ==
  \E s \in document.styles : StyleName(s) = style_name /\ s.type = style_type

\* "for doc_style in document.styles: if doc_style.name == style"
style_name_exists(document, style_name) ==
  \E s \in document.styles : StyleName(s) = style_name

-----------------------------------------------------------------------------
(* The document library: lengths *)

\* English Metric Units in an inch and in a point
EmuPerInch == 914400
EmuPerPt == 12700

\* int(x): truncation toward zero of n / d
Trunc(n, d) == IF n >= 0 THEN n \div d ELSE -((-n) \div d)

\* the strings of the model that Python's float() parses, with their values
\* in hundredths
NumericStrings == [s \in {"1.5"} |-> 150]

\* float(x): a number or a boolean converts, so does a string that is a
\* number; any other string raises ValueError
Float(x) ==
  CASE x.t = "num" -> [exc |-> "", v |-> x.v]
    [] x.t = "bool" -> [exc |-> "", v |-> IF x.b THEN 100 ELSE 0]
    [] x.t = "str" ->
         IF x.s \in DOMAIN NumericStrings THEN [exc |-> "", v |-> NumericStrings[x.s]]
         ELSE [exc |-> "ValueError", v |-> 0]
    [] OTHER -> [exc |-> "TypeError", v |-> 0]

\* the file keeps page sizes and margins in twentieths of a point
EmuPerTwip == 635

\* a length as it is after being written to the file and read back: the
\* nearest whole number of twips (lengths in the model are not negative)
TwipRound(emu) == ((2 * emu + EmuPerTwip) \div (2 * EmuPerTwip)) * EmuPerTwip

\* Inches(v) and Pt(v) for v in hundredths: a whole number of EMU
Inches(v) == Trunc(v * EmuPerInch, 100)
Pt(v) == Trunc(v * EmuPerPt, 100)

-----------------------------------------------------------------------------
(* The document library: paragraphs, runs, tables, documents *)

ParaKeys ==
  << "alignment", "left_indent", "right_indent", "first_line_indent",
     "space_before", "space_after", "line_spacing",
     "keep_together", "keep_with_next", "page_break_before", "widow_control" >>

\* paragraph.paragraph_format of a new paragraph: nothing set (<<>> is None)
DefaultParaFormat == [k \in {ParaKeys[i] : i \in 1..Len(ParaKeys)} |-> <<>>]

FontKeys == <<"name", "size", "bold", "italic", "underline", "color">>

\* run.font of a new run: nothing set
DefaultFont == [k \in {FontKeys[i] : i \in 1..Len(FontKeys)} |-> <<>>]

NewRun(text) == [text |-> text, style |-> "", font |-> DefaultFont]

\* a paragraph as BlockItemContainer.add_paragraph first creates it: one run
\* when the text is not empty, no style
NewParagraph(text) ==
  [kind |-> "p", style |-> "",
   runs |-> IF text = <<>> THEN <<>> ELSE <<NewRun(text)>>,
   pf |-> DefaultParaFormat]

\* a table as add_table creates it: max(rows,0) rows of max(cols,0) empty cells
NewTable(rows, cols) ==
  [kind |-> "tbl", style |-> "", rows |-> rows, cols |-> cols,
   cells |-> [i \in 0..(rows - 1) |-> [j \in 0..(cols - 1) |-> <<>>]],
   fmts |-> [i \in 0..(rows - 1) |-> [j \in 0..(cols - 1) |-> DefaultParaFormat]],
   merged |-> {}]

\* data_list[cell_idx].strip() for every cell, row by row
FillCells(rows, cols, data_list) ==
  [i \in 0..(rows - 1) |-> [j \in 0..(cols - 1) |-> Strip(data_list[i * cols + j + 1])]]

\* a header or footer without a definition of its own
LinkedHF == [linked |-> TRUE, paras |-> <<>>]

\* the one section of the default template: Letter, portrait
DefaultSection ==
  [start_type |-> "NEW_PAGE", orientation |-> "PORTRAIT",
   page_width |-> 7772400, page_height |-> 10058400,
   left_margin |-> 1143000, right_margin |-> 1143000,
   top_margin |-> 914400, bottom_margin |-> 914400, gutter |-> 0,
   header_distance |-> 457200, footer_distance |-> 457200,
   header |-> LinkedHF, footer |-> LinkedHF]

\* Document(): the default template, an empty body
NewDocument == [body |-> <<>>, styles |-> DefaultStyles, sections |-> <<DefaultSection>>]

RECURSIVE ConcatRuns(_)
ConcatRuns(runs) == IF runs = <<>> THEN <<>> ELSE Head(runs).text \o ConcatRuns(Tail(runs))

\* paragraph.text
ParaText(p) == ConcatRuns(p.runs)

\* the positions in the body of document.paragraphs, in order
RECURSIVE ParaPositionsFrom(_, _)
ParaPositionsFrom(body, i) ==
  IF i > Len(body) THEN <<>>
  ELSE IF body[i].kind = "p" THEN <<i>> \o ParaPositionsFrom(body, i + 1)
  ELSE ParaPositionsFrom(body, i + 1)

ParaPositions(doc) == ParaPositionsFrom(doc.body, 1)

\* document.paragraphs
Paragraphs(doc) == [k \in 1..Len(ParaPositions(doc)) |-> doc.body[ParaPositions(doc)[k]]]

\* document.tables
Tables(doc) == SelectSeq(doc.body, LAMBDA e : e.kind = "tbl")

\* the positions in the body of document.tables, in order
RECURSIVE TablePositionsFrom(_, _)
TablePositionsFrom(body, i) ==
  IF i > Len(body) THEN <<>>
  ELSE IF body[i].kind = "tbl" THEN <<i>> \o TablePositionsFrom(body, i + 1)
  ELSE TablePositionsFrom(body, i + 1)

\* list[index] as Python indexes a list of length n: the position from 1, 0
\* where the index raises IndexError
ListPos(n, index) ==
  IF index >= 0 THEN (IF index < n THEN index + 1 ELSE 0)
  ELSE IF index >= -n THEN n + index + 1
  ELSE 0

\* document.tables[table_index]: its position in the body, 0 on IndexError
TablePos(document, table_index) ==
  IF ListPos(Len(TablePositionsFrom(document.body, 1)), table_index) = 0 THEN 0
  ELSE TablePositionsFrom(document.body, 1)[
         ListPos(Len(TablePositionsFrom(document.body, 1)), table_index)]

NoCell == <<-1, -1>>

\* table.cell(row_idx, col_idx) of a table without merged cells: the cell
\* numbered col_idx + row_idx * column_count in the row-by-row list of cells,
\* as its <<row, column>>; NoCell where the list index raises IndexError
TableCell(table, row_idx, col_idx) ==
  IF ListPos(table.rows * table.cols, col_idx + row_idx * table.cols) = 0 THEN NoCell
  ELSE << (ListPos(table.rows * table.cols, col_idx + row_idx * table.cols) - 1)
            \div table.cols,
          (ListPos(table.rows * table.cols, col_idx + row_idx * table.cols) - 1)
            % table.cols >>

Min(a, b) == IF a <= b THEN a ELSE b
Max(a, b) == IF a >= b THEN a ELSE b

\* the rectangle between two cells
Span(a, b) ==
  [top |-> Min(a[1], b[1]), left |-> Min(a[2], b[2]),
   bottom |-> Max(a[1], b[1]), right |-> Max(a[2], b[2])]

InSpan(sp, i, j) == sp.top <= i /\ i <= sp.bottom /\ sp.left <= j /\ j <= sp.right

\* the texts of the cells of a span that are not empty, row by row, one per line
RECURSIVE SpanText(_, _, _)
SpanText(table, sp, k) ==
  IF k >= table.rows * table.cols THEN <<>>
  ELSE IF InSpan(sp, k \div table.cols, k % table.cols)
            /\ table.cells[k \div table.cols][k % table.cols] # <<>>
       THEN IF SpanText(table, sp, k + 1) = <<>>
              THEN table.cells[k \div table.cols][k % table.cols]
            ELSE table.cells[k \div table.cols][k % table.cols] \o NL
                   \o SpanText(table, sp, k + 1)
  ELSE SpanText(table, sp, k + 1)

\* first_cell.merge(last_cell) on a table without merged cells: the cells of
\* the rectangle become one cell that holds their paragraphs
cell_merge(table, a, b) ==
  IF a = b THEN table
  ELSE [table EXCEPT
          !.cells = [i \in DOMAIN @ |-> [j \in DOMAIN @[i] |->
                      IF InSpan(Span(a, b), i, j) THEN SpanText(table, Span(a, b), 0)
                      ELSE @[i][j]]],
          !.merged = @ \cup {Span(a, b)}]

\* document.add_paragraph(text, style): the paragraph is appended first and the
\* style assigned afterwards, so a failing style lookup leaves it in the body
doc_add_paragraph(doc, text, style) ==
  LET d1 == [doc EXCEPT !.body = Append(@, NewParagraph(text))]
      r == get_style_id(doc, style, "paragraph")
  IN IF style = "" THEN [exc |-> "", doc |-> d1]
     ELSE IF r.exc # "" THEN [exc |-> r.exc, doc |-> d1]
     ELSE [exc |-> "", doc |-> [d1 EXCEPT !.body[Len(d1.body)].style = r.id]]

HeadingStyle(level) ==
  CASE level = 0 -> "Title"
    [] level = 1 -> "Heading 1"
    [] level = 2 -> "Heading 2"
    [] level = 3 -> "Heading 3"
    [] OTHER -> "Heading N"

\* document.add_heading(text, level): ValueError outside 0..9
doc_add_heading(doc, text, level) ==
  IF level < 0 \/ level > 9 THEN [exc |-> "ValueError", doc |-> doc]
  ELSE doc_add_paragraph(doc, text, HeadingStyle(level))

\* document.add_table(rows, cols)
doc_add_table(doc, rows, cols) == [doc EXCEPT !.body = Append(@, NewTable(rows, cols))]

\* table.style = name, for the table that is last in the body
last_table_set_style(doc, name) ==
  LET r == get_style_id(doc, name, "table")
  IN IF r.exc # "" THEN [exc |-> r.exc, doc |-> doc]
     ELSE [exc |-> "", doc |-> [doc EXCEPT !.body[Len(doc.body)].style = r.id]]

\* p.getparent().remove(p) for the element appended last
remove_last(doc) == [doc EXCEPT !.body = SubSeq(@, 1, Len(@) - 1)]

-----------------------------------------------------------------------------
(* Formatting helpers (utils/helpers.py) *)

AlignmentMap == {"LEFT", "CENTER", "RIGHT", "JUSTIFY"}

IndentKeys == {"left_indent", "right_indent", "first_line_indent"}
SpaceKeys == {"space_before", "space_after"}
FlagKeys == {"keep_together", "keep_with_next", "page_break_before", "widow_control"}

\* a formatting step that would clear a spacing when its key is None or absent
ApplyParaKey_reset_none(pf, key, v) ==
  CASE key = "alignment" ->
         IF ~Truthy(v) THEN [exc |-> "", pf |-> pf]
         ELSE IF v.t # "str" THEN [exc |-> "AttributeError", pf |-> pf]
         ELSE IF Upper(v.s) \in AlignmentMap
              THEN [exc |-> "", pf |-> [pf EXCEPT ![key] = <<Upper(v.s)>>]]
              ELSE [exc |-> "", pf |-> pf]
    [] key \in IndentKeys ->
         IF v = NoneVal THEN [exc |-> "", pf |-> pf]
         ELSE IF Float(v).exc # "" THEN [exc |-> Float(v).exc, pf |-> pf]
         ELSE [exc |-> "", pf |-> [pf EXCEPT ![key] = <<Inches(Float(v).v)>>]]
    [] key \in SpaceKeys ->
         IF v = NoneVal THEN [exc |-> "", pf |-> [pf EXCEPT ![key] = <<>>]]
         ELSE IF Float(v).exc # "" THEN [exc |-> Float(v).exc, pf |-> pf]
         ELSE [exc |-> "", pf |-> [pf EXCEPT ![key] = <<Pt(Float(v).v)>>]]
    [] key = "line_spacing" ->
         IF v = NoneVal THEN [exc |-> "", pf |-> pf]
         ELSE IF Float(v).exc # "" THEN [exc |-> Float(v).exc, pf |-> pf]
         ELSE [exc |-> "", pf |-> [pf EXCEPT ![key] = <<Float(v).v>>]]
    [] key \in FlagKeys ->
         IF v = NoneVal THEN [exc |-> "", pf |-> pf]
         ELSE [exc |-> "", pf |-> [pf EXCEPT ![key] = <<Truthy(v)>>]]

\* one "x = formatting.get(key); if ...: para_format.key = ..." step
ApplyParaKey(pf, key, v) ==
  CASE key = "alignment" ->
         IF ~Truthy(v) THEN [exc |-> "", pf |-> pf]
         ELSE IF v.t # "str" THEN [exc |-> "AttributeError", pf |-> pf]
         ELSE IF Upper(v.s) \in AlignmentMap
              THEN [exc |-> "", pf |-> [pf EXCEPT ![key] = <<Upper(v.s)>>]]
              ELSE [exc |-> "", pf |-> pf]
    [] key \in IndentKeys ->
         IF v = NoneVal THEN [exc |-> "", pf |-> pf]
         ELSE IF Float(v).exc # "" THEN [exc |-> Float(v).exc, pf |-> pf]
         ELSE [exc |-> "", pf |-> [pf EXCEPT ![key] = <<Inches(Float(v).v)>>]]
    [] key \in SpaceKeys ->
         IF v = NoneVal THEN [exc |-> "", pf |-> pf]
         ELSE IF Float(v).exc # "" THEN [exc |-> Float(v).exc, pf |-> pf]
         ELSE [exc |-> "", pf |-> [pf EXCEPT ![key] = <<Pt(Float(v).v)>>]]
    [] key = "line_spacing" ->
         \* float() succeeds: a multiple; float() raises ValueError: the handler
         \* calls float() on the same value again, which raises again
         IF v = NoneVal THEN [exc |-> "", pf |-> pf]
         ELSE IF Float(v).exc # "" THEN [exc |-> Float(v).exc, pf |-> pf]
         ELSE [exc |-> "", pf |-> [pf EXCEPT ![key] = <<Float(v).v>>]]
    [] key \in FlagKeys ->
         IF v = NoneVal THEN [exc |-> "", pf |-> pf]
         ELSE [exc |-> "", pf |-> [pf EXCEPT ![key] = <<Truthy(v)>>]]

RECURSIVE ApplyParaKeys(_, _, _)
ApplyParaKeys(pf, formatting, i) ==
  IF i > Len(ParaKeys) THEN [exc |-> "", pf |-> pf]
  ELSE LET r == ApplyParaKey(pf, ParaKeys[i], Get(formatting, ParaKeys[i]))
       IN IF r.exc # "" THEN r ELSE ApplyParaKeys(r.pf, formatting, i + 1)

\* _apply_paragraph_formatting on a paragraph format; None and {} are both the
\* empty map
apply_paragraph_formatting(pf, formatting) ==
  IF DOMAIN formatting = {} THEN [exc |-> "", pf |-> pf]
  ELSE ApplyParaKeys(pf, formatting, 1)

\* what the color branch does with the color strings the model passes:
\* an RGB triple, nothing, or ValueError from int()
ParseColor(s) ==
  CASE s = "#FF0000" -> [exc |-> "", rgb |-> <<255, 0, 0>>]
    [] s = "rgb(0, 128, 255)" -> [exc |-> "", rgb |-> <<0, 128, 255>>]
    [] s = "rgb(1,2)" -> [exc |-> "", rgb |-> <<>>]
    [] s = "#GG0000" -> [exc |-> "ValueError", rgb |-> <<>>]
    [] OTHER -> [exc |-> "", rgb |-> <<>>]

ApplyFontKey(font, key, v) ==
  CASE key = "name" ->
         IF Truthy(v) /\ v.t = "str" THEN [exc |-> "", font |-> [font EXCEPT ![key] = <<v.s>>]]
         ELSE [exc |-> "", font |-> font]
    [] key = "size" ->
         IF v = NoneVal THEN [exc |-> "", font |-> font]
         ELSE IF Float(v).exc # "" THEN [exc |-> Float(v).exc, font |-> font]
         ELSE [exc |-> "", font |-> [font EXCEPT ![key] = <<Pt(Float(v).v)>>]]
    [] key \in {"bold", "italic", "underline"} ->
         IF v = NoneVal THEN [exc |-> "", font |-> font]
         ELSE [exc |-> "", font |-> [font EXCEPT ![key] = <<Truthy(v)>>]]
    [] key = "color" ->
         IF ~Truthy(v) THEN [exc |-> "", font |-> font]
         ELSE IF v.t # "str" THEN [exc |-> "AttributeError", font |-> font]
         ELSE IF ParseColor(v.s).exc # "" THEN [exc |-> ParseColor(v.s).exc, font |-> font]
         ELSE IF ParseColor(v.s).rgb = <<>> THEN [exc |-> "", font |-> font]
         ELSE [exc |-> "", font |-> [font EXCEPT ![key] = <<ParseColor(v.s).rgb>>]]

RECURSIVE ApplyFontKeys(_, _, _)
ApplyFontKeys(font, formatting, i) ==
  IF i > Len(FontKeys) THEN [exc |-> "", font |-> font]
  ELSE LET r == ApplyFontKey(font, FontKeys[i], Get(formatting, FontKeys[i]))
       IN IF r.exc # "" THEN r ELSE ApplyFontKeys(r.font, formatting, i + 1)

\* _apply_run_formatting on a run's font
apply_run_formatting(font, formatting) ==
  IF DOMAIN formatting = {} THEN [exc |-> "", font |-> font]
  ELSE ApplyFontKeys(font, formatting, 1)

-----------------------------------------------------------------------------
(* The content-block expander (utils/helpers.py, _add_content_to_document);
   a step hands on [exc, ok, doc]: the exception that left it if any, FALSE
   for "return False", and the document so far *)

Expanded(document) == [exc |-> "", ok |-> TRUE, doc |-> document]

\* "if formatting: _apply_paragraph_formatting(...)" on the element added last
expand_format_last(r, formatting) ==
  IF r.exc # "" THEN [exc |-> r.exc, ok |-> TRUE, doc |-> r.doc]
  ELSE [exc |-> apply_paragraph_formatting(r.doc.body[Len(r.doc.body)].pf, formatting).exc,
        ok |-> TRUE,
        doc |-> [r.doc EXCEPT !.body[Len(r.doc.body)].pf =
                   apply_paragraph_formatting(@, formatting).pf]]

\* a heading block
expand_heading(document, item) ==
  expand_format_last(doc_add_heading(document, GetOr(item, "text", <<>>),
                                     GetOr(item, "level", 1)),
                     GetOr(item, "formatting", <<>>))

\* "if run_formatting and len(paragraph.runs) > 0" on the paragraph added last
expand_format_run(r, run_formatting) ==
  IF r.exc # "" \/ r.doc.body[Len(r.doc.body)].runs = <<>> THEN r
  ELSE [exc |-> apply_run_formatting(r.doc.body[Len(r.doc.body)].runs[1].font,
                                     run_formatting).exc,
        ok |-> TRUE,
        doc |-> [r.doc EXCEPT !.body[Len(r.doc.body)].runs[1].font =
                   apply_run_formatting(@, run_formatting).font]]

\* "except KeyError: paragraph = document.add_paragraph(text)": the paragraph
\* whose style lookup failed stays where add_paragraph put it
expand_unstyled(p, text) ==
  IF p.exc = "KeyError" THEN Expanded(doc_add_paragraph(p.doc, text, "").doc)
  ELSE [exc |-> p.exc, ok |-> TRUE, doc |-> p.doc]

\* the paragraph block from "paragraph = document.add_paragraph(text, style)"
\* on; p is the outcome of that call
expand_styled(p, item) ==
  IF p.exc # "" THEN expand_unstyled(p, GetOr(item, "text", <<>>))
  ELSE expand_format_run(expand_format_last(p, GetOr(item, "formatting", <<>>)),
                         GetOr(item, "run_formatting", <<>>))

\* a paragraph block whose style is not among the document's style names:
\* probe is the outcome of the temporary paragraph, removed only when the
\* style resolved
expand_probed(document, probe, item) ==
  IF probe.exc = ""
    THEN expand_styled(doc_add_paragraph(document, GetOr(item, "text", <<>>),
                                         GetOr(item, "style", "")), item)
  ELSE expand_unstyled(probe, GetOr(item, "text", <<>>))

\* a paragraph block
expand_paragraph(document, item) ==
  IF GetOr(item, "style", "") # "" /\ ~style_name_exists(document, GetOr(item, "style", ""))
  THEN expand_probed(document, doc_add_paragraph(document, <<>>, GetOr(item, "style", "")), item)
  ELSE expand_styled(doc_add_paragraph(document, GetOr(item, "text", <<>>),
                                       GetOr(item, "style", "")), item)

\* "table.style = style" for the table at position tpos; st is [exc, doc]
expand_set_style(st, tpos, style) ==
  IF st.exc # "" THEN st
  ELSE IF get_style_id(st.doc, style, "table").exc # ""
       THEN [exc |-> get_style_id(st.doc, style, "table").exc, doc |-> st.doc]
  ELSE [exc |-> "", doc |-> [st.doc EXCEPT !.body[tpos].style =
                               get_style_id(st.doc, style, "table").id]]

\* the temporary table's outcome: removed when its style resolved
expand_temp_table(temp) ==
  IF temp.exc = "" THEN [exc |-> "", doc |-> remove_last(temp.doc)] ELSE temp

\* "except KeyError: pass"
expand_pass_key_error(st) == IF st.exc = "KeyError" THEN [exc |-> "", doc |-> st.doc] ELSE st

\* "if style: try: ..." of a table block, the table being at position tpos
expand_table_style(document, tpos, style) ==
  IF style = "" THEN [exc |-> "", doc |-> document]
  ELSE IF style_exists(document, style, "table")
       THEN expand_pass_key_error(expand_set_style([exc |-> "", doc |-> document], tpos, style))
  ELSE expand_pass_key_error(
         expand_set_style(
           expand_temp_table(last_table_set_style(doc_add_table(document, 1, 1), style)),
           tpos, style))

\* a data step that would drop the surplus values instead of returning False
expand_table_data_dropping(st, tpos, rows, cols, data) ==
  IF st.exc # "" THEN [exc |-> st.exc, ok |-> TRUE, doc |-> st.doc]
  ELSE IF data = <<>> THEN Expanded(st.doc)
  ELSE IF Len(Split(data, ",")) > rows * cols THEN Expanded(st.doc)
  ELSE Expanded([st.doc EXCEPT !.body[tpos].cells =
         FillCells(rows, cols,
                   Split(data, ",") \o [k \in 1..(rows * cols - Len(Split(data, ","))) |-> <<>>])])

\* "if data:": split, pad when too few, "return False" when the count still
\* differs from rows*cols, fill
expand_table_data(st, tpos, rows, cols, data) ==
  IF st.exc # "" THEN [exc |-> st.exc, ok |-> TRUE, doc |-> st.doc]
  ELSE IF data = <<>> THEN Expanded(st.doc)
  ELSE IF Len(Split(data, ",")) > rows * cols THEN [exc |-> "", ok |-> FALSE, doc |-> st.doc]
  ELSE Expanded([st.doc EXCEPT !.body[tpos].cells =
         FillCells(rows, cols,
                   Split(data, ",") \o [k \in 1..(rows * cols - Len(Split(data, ","))) |-> <<>>])])

\* one entry of cell_formatting
expand_cell_format(r, tpos, rows, cols, row, col, formatting) ==
  IF r.exc # "" \/ ~r.ok \/ ~(row < rows /\ col < cols) THEN r
  ELSE [exc |-> apply_paragraph_formatting(r.doc.body[tpos].fmts[row][col], formatting).exc,
        ok |-> TRUE,
        doc |-> [r.doc EXCEPT !.body[tpos].fmts[row][col] =
                   apply_paragraph_formatting(@, formatting).pf]]

RECURSIVE expand_cell_formats(_, _, _, _, _)
expand_cell_formats(r, tpos, rows, cols, cell_formatting) ==
  IF cell_formatting = <<>> THEN r
  ELSE expand_cell_formats(
         expand_cell_format(r, tpos, rows, cols,
                            GetOr(Head(cell_formatting), "row", 0),
                            GetOr(Head(cell_formatting), "col", 0),
                            GetOr(Head(cell_formatting), "formatting", <<>>)),
         tpos, rows, cols, Tail(cell_formatting))

\* a table block
expand_table(document, item) ==
  expand_cell_formats(
    expand_table_data(
      expand_table_style(doc_add_table(document, GetOr(item, "rows", 1), GetOr(item, "cols", 1)),
                         Len(document.body) + 1, GetOr(item, "style", "")),
      Len(document.body) + 1, GetOr(item, "rows", 1), GetOr(item, "cols", 1),
      GetOr(item, "data", <<>>)),
    Len(document.body) + 1, GetOr(item, "rows", 1), GetOr(item, "cols", 1),
    GetOr(item, "cell_formatting", <<>>))

\* one block, by its type in lower case; a block of another type adds nothing
expand_item(document, item) ==
  CASE Lower(GetOr(item, "type", "")) = "heading" -> expand_heading(document, item)
    [] Lower(GetOr(item, "type", "")) = "paragraph" -> expand_paragraph(document, item)
    [] Lower(GetOr(item, "type", "")) = "table" -> expand_table(document, item)
    [] OTHER -> Expanded(document)

RECURSIVE add_content_to_document(_, _)

\* "for item in content" goes on unless the block raised or returned False
expand_next(r, rest) ==
  IF r.exc # "" \/ ~r.ok THEN r ELSE add_content_to_document(r.doc, rest)

\* _add_content_to_document(document, content); <<>> is None or []
add_content_to_document(document, content) ==
  IF content = <<>> THEN Expanded(document)
  ELSE expand_next(expand_item(document, Head(content)), Tail(content))

-----------------------------------------------------------------------------
(* Files *)

DocIds == {"d", "e"}

get_document_path(doc_id) == [dir |-> "script_dir", name |-> doc_id]

\* save_document's documents_dir: os.environ.get('DOCX_DOCUMENTS_DIR',
\* 'documents'), the default or the directory get_document_path uses
DocumentsDirs == {"documents", "script_dir"}

\* os.path.join(documents_dir, f"{document_name}.docx") of save_document, for
\* a name without the .docx ending
documents_path(documents_dir, document_name) ==
  [dir |-> documents_dir, name |-> document_name]

\* f"{doc_id}.pdf"
PdfName(doc_id) == IF doc_id = "d" THEN "d.pdf" ELSE "e.pdf"

\* os.path.join(parent_dir, f"{doc_id}.pdf") of convert_to_pdf: the directory
\* is the one get_document_path uses
pdf_path(doc_id) == [dir |-> "script_dir", name |-> PdfName(doc_id)]

Paths ==
  {get_document_path(d) : d \in DocIds}
    \cup {documents_path(dir, d) : dir \in DocumentsDirs, d \in DocIds}
    \cup {pdf_path(d) : d \in DocIds}

\* load_document: ValueError when the file is absent
load_document(files, doc_id) ==
  IF files[get_document_path(doc_id)] = NoFile
  THEN [exc |-> "ValueError", doc |-> NoFile]
  ELSE [exc |-> "", doc |-> files[get_document_path(doc_id)]]

\* document.save(doc_path)
save(files, doc_path, document) == [files EXCEPT ![doc_path] = document]

\* what a handler hands back: the returned message and the file system it leaves
Result(kind, msg, files) == [ret |-> [kind |-> kind, msg |-> msg], files |-> files]

\* "except ValueError as e: return str(e)" and "except Exception as e: return
\* f'Error ...: {e}'": both a failure message, nothing saved
Raised(exc, files) ==
  Result("error", IF exc = "ValueError" THEN "ValueErrorText" ELSE "ErrorPrefixed", files)

\* an exception that no handler catches: the call raises to its caller
Escaped(exc, files) == [ret |-> [kind |-> "raised", msg |-> exc], files |-> files]

\* a returned value that is not a status string
Returned(msg, value, files) ==
  [ret |-> [kind |-> "ok", msg |-> msg, value |-> value], files |-> files]

NotFound(files) == Result("error", "DocumentNotFound", files)

-----------------------------------------------------------------------------
(* Document operations (mcp_docx_server/document_ops.py) *)

\* create_document opening the existing file, as update_document does when
\* appending, instead of starting from Document()
create_document_on_existing(files, doc_id, title) ==
  LET base == IF files[get_document_path(doc_id)] = NoFile THEN NewDocument
              ELSE files[get_document_path(doc_id)]
      h == doc_add_heading(base, title, 0)
  IN IF h.exc # "" THEN Result("error", "ErrorPrefixed", files)
     ELSE Result("ok", "DocumentCreated", save(files, get_document_path(doc_id), h.doc))

create_document(files, doc_id, title) ==
  LET h == doc_add_heading(NewDocument, title, 0)
  IN IF h.exc # "" THEN Result("error", "ErrorPrefixed", files)
     ELSE Result("ok", "DocumentCreated", save(files, get_document_path(doc_id), h.doc))

\* "if title: document.add_heading(title, level)"
titled(document, title, level) ==
  IF title = <<>> THEN [exc |-> "", doc |-> document]
  ELSE doc_add_heading(document, title, level)

\* the end of create_complete_document and update_document: h is the
\* document with its title
expand_and_save(files, doc_id, h, content, msg) ==
  IF h.exc # "" THEN Raised("Exception", files)
  ELSE IF add_content_to_document(h.doc, content).exc # "" THEN Raised("Exception", files)
  ELSE IF ~add_content_to_document(h.doc, content).ok
       THEN Result("error", "TableDataMismatch", files)
  ELSE Result("ok", msg,
              save(files, get_document_path(doc_id), add_content_to_document(h.doc, content).doc))

create_complete_document(files, doc_id, title, content) ==
  expand_and_save(files, doc_id, doc_add_heading(NewDocument, title, 0), content,
                  "DocumentCreatedComplete")

\* title is <<>> for None
update_document(files, doc_id, title, content, append) ==
  IF files[get_document_path(doc_id)] = NoFile /\ append
    THEN Result("error", "DoesNotExist", files)
  ELSE IF ~append \/ files[get_document_path(doc_id)] = NoFile
    THEN expand_and_save(files, doc_id, titled(NewDocument, title, 0), content,
                         "DocumentReplaced")
  ELSE expand_and_save(files, doc_id, titled(files[get_document_path(doc_id)], title, 1),
                       content, "DocumentAppended")

\* what the external converter may do: the docx2pdf module is not installed,
\* the conversion raises, the conversion writes the PDF
ConvertOutcomes == {"ImportError", "failed", "converted"}

\* the file the converter writes from a document
Pdf(document) == [kind |-> "pdf", body |-> document.body]

\* a convert_to_pdf that would hand the document's own path to the converter
\* as the place to write
convert_in_place(files, doc_id, outcome) ==
  IF outcome = "ImportError" THEN Raised("ImportError", files)
  ELSE IF files[get_document_path(doc_id)] = NoFile THEN NotFound(files)
  ELSE IF outcome = "failed" THEN Raised("Exception", files)
  ELSE Result("ok", "ConvertedToPdf",
              save(files, get_document_path(doc_id), Pdf(files[get_document_path(doc_id)])))

\* convert_to_pdf: nothing but the converter writes, and it writes pdf_path
convert_to_pdf(files, doc_id, outcome) ==
  IF outcome = "ImportError" THEN Raised("ImportError", files)
  ELSE IF files[get_document_path(doc_id)] = NoFile THEN NotFound(files)
  ELSE IF outcome = "failed" THEN Raised("Exception", files)
  ELSE Result("ok", "ConvertedToPdf",
              save(files, pdf_path(doc_id), Pdf(files[get_document_path(doc_id)])))

\* '\n'.join(paragraph.text for paragraph in document.paragraphs)
FullText(document) ==
  Join([k \in 1..Len(Paragraphs(document)) |-> ParaText(Paragraphs(document)[k])], NL)

read_document(files, doc_id) ==
  LET ld == load_document(files, doc_id)
  IN IF ld.exc # "" THEN NotFound(files)
     ELSE [ret |-> [kind |-> "ok", msg |-> "Text", text |-> FullText(ld.doc)],
           files |-> files]

-----------------------------------------------------------------------------
(* Style operations (mcp_docx_server/style_ops.py) *)

StyleTypeMap == {"paragraph", "character", "table"}

\* the text of the throwaway paragraph
StyleDefinitionText == <<"S", "t", "y", "l", "e">>

\* the throwaway element of each kind, and the style assigned to it: the
\* element is in the body whether or not the assignment raises
ProbeStyle(document, style_name, kind) ==
  CASE kind = "paragraph" -> doc_add_paragraph(document, StyleDefinitionText, style_name)
    [] kind = "character" ->
         [exc |-> get_style_id(document, style_name, "character").exc,
          doc |-> doc_add_paragraph(document, StyleDefinitionText, "").doc]
    [] kind = "table" -> last_table_set_style(doc_add_table(document, 1, 1), style_name)

\* an ensure_style_exists that would save the document with the throwaway
\* element still in it
ensure_style_exists_keeping(files, doc_id, style_name, style_type) ==
  LET ld == load_document(files, doc_id)
      document == ld.doc
      kind == Lower(style_type)
      probe == ProbeStyle(document, style_name, kind)
  IN IF ld.exc # "" THEN NotFound(files)
     ELSE IF kind \notin StyleTypeMap THEN Result("error", "InvalidStyleType", files)
     ELSE IF style_exists(document, style_name, kind)
          THEN Result("ok", "StyleAlreadyExists", files)
     ELSE IF probe.exc = "KeyError" THEN Result("error", "BuiltInStyleNotFound", files)
     ELSE IF probe.exc # "" THEN Raised(probe.exc, files)
     ELSE Result("ok", "StyleDefined",
                 save(files, get_document_path(doc_id), probe.doc))

ensure_style_exists(files, doc_id, style_name, style_type) ==
  LET ld == load_document(files, doc_id)
      document == ld.doc
      kind == Lower(style_type)
      probe == ProbeStyle(document, style_name, kind)
  IN IF ld.exc # "" THEN NotFound(files)
     ELSE IF kind \notin StyleTypeMap THEN Result("error", "InvalidStyleType", files)
     ELSE IF style_exists(document, style_name, kind)
          THEN Result("ok", "StyleAlreadyExists", files)
     ELSE IF probe.exc = "KeyError" THEN Result("error", "BuiltInStyleNotFound", files)
     ELSE IF probe.exc # "" THEN Raised(probe.exc, files)
     ELSE Result("ok", "StyleDefined",
                 save(files, get_document_path(doc_id), remove_last(probe.doc)))

\* "if 'Error' in ensure_result or 'not found' in ensure_result": the messages
\* of ensure_style_exists that hold one of the two texts, for style names
\* that hold neither; the text of a ValueError of the library holds neither
EnsureFailed(r) ==
  r.kind = "error"
    /\ r.msg \in {"InvalidStyleType", "BuiltInStyleNotFound", "ErrorPrefixed",
                  "DocumentNotFound"}

\* document.styles.add_style(name, type): ValueError when the document has a
\* style of that name, of whatever type; else a custom style whose id is the
\* name (for a name without blanks)
styles_add_style(document, style_name, kind) ==
  IF \E s \in document.styles : s.name = ui2internal(style_name)
    THEN [exc |-> "ValueError", doc |-> document]
  ELSE [exc |-> "",
        doc |-> [document EXCEPT !.styles =
                   @ \cup {[name |-> ui2internal(style_name), style_id |-> style_name,
                            type |-> kind, default |-> FALSE]}]]

\* create_custom_style from "new_style = document.styles.add_style(...)" on:
\* files is the file system the nested ensure_style_exists has left, added
\* the outcome of add_style; the base style is looked up in the document
\* loaded at the start and leaves no trace in the model of a style
create_style_save(files, doc_id, document, added, base_style) ==
  IF added.exc # "" THEN Raised(added.exc, files)
  ELSE IF base_style # "" /\ StylesGetItem(document, base_style) = NoStyle
    THEN Result("error", "BaseStyleNotFound", files)
  ELSE Result("ok", "CustomStyleCreated",
              save(files, get_document_path(doc_id), added.doc))

\* "if base_style: if not style_exists(...): ensure_result =
\* ensure_style_exists(doc_id, base_style, style_type)", which loads the file
\* again and may save it; ens is its outcome
create_style_based(files, doc_id, document, style_name, kind, base_style, ens) ==
  IF base_style # "" /\ ~style_exists(document, base_style, kind)
    THEN IF EnsureFailed(ens.ret) THEN Result("error", "BaseStyleMissing", ens.files)
         ELSE create_style_save(ens.files, doc_id, document,
                                styles_add_style(document, style_name, kind), base_style)
  ELSE create_style_save(files, doc_id, document,
                         styles_add_style(document, style_name, kind), base_style)

\* create_custom_style: base_style is "" for None
create_custom_style(files, doc_id, style_name, style_type, base_style) ==
  LET ld == load_document(files, doc_id)
  IN IF ld.exc # "" THEN NotFound(files)
     ELSE IF Lower(style_type) \notin StyleTypeMap
       THEN Result("error", "InvalidStyleType", files)
     ELSE IF style_exists(ld.doc, style_name, Lower(style_type))
       THEN Result("error", "StyleAlreadyExists", files)
     ELSE create_style_based(files, doc_id, ld.doc, style_name, Lower(style_type), base_style,
                             ensure_style_exists(files, doc_id, base_style, style_type))

-----------------------------------------------------------------------------
(* Content operations (mcp_docx_server/content_ops.py) *)

\* the last body element's paragraph format after apply_paragraph_formatting
FormatLast(document, formatting) ==
  LET n == Len(document.body)
      r == apply_paragraph_formatting(document.body[n].pf, formatting)
  IN [exc |-> r.exc, doc |-> [document EXCEPT !.body[n].pf = r.pf]]

\* probe_paragraph_style without its "except KeyError": the lookup failure
\* leaves the handler
probe_paragraph_style_no_except(document, style) ==
  LET probe == doc_add_paragraph(document, <<>>, style)
  IN IF style = "" \/ style_exists(document, style, "paragraph")
       THEN [exc |-> "", doc |-> document, style |-> style, msg |-> "ParagraphAdded"]
     ELSE IF probe.exc = ""
       THEN [exc |-> "", doc |-> remove_last(probe.doc), style |-> style,
             msg |-> "ParagraphAdded"]
     ELSE [exc |-> probe.exc, doc |-> probe.doc, style |-> style, msg |-> ""]

\* "If style is specified, ensure it exists in the document": the throwaway
\* paragraph is removed only when the style assignment did not raise; on
\* KeyError the style is dropped and the message becomes the warning
probe_paragraph_style(document, style) ==
  LET probe == doc_add_paragraph(document, <<>>, style)
  IN IF style = "" \/ style_exists(document, style, "paragraph")
       THEN [exc |-> "", doc |-> document, style |-> style, msg |-> "ParagraphAdded"]
     ELSE IF probe.exc = ""
       THEN [exc |-> "", doc |-> remove_last(probe.doc), style |-> style,
             msg |-> "ParagraphAdded"]
     ELSE IF probe.exc = "KeyError"
       THEN [exc |-> "", doc |-> probe.doc, style |-> "", msg |-> "WarningStyleNotFound"]
     ELSE [exc |-> probe.exc, doc |-> probe.doc, style |-> style, msg |-> ""]

\* "Now add the actual paragraph"
add_actual_paragraph(document, text, style, msg) ==
  LET styled == doc_add_paragraph(document, text, style)
  IN IF styled.exc = "" THEN [exc |-> "", doc |-> styled.doc, msg |-> msg]
     ELSE IF styled.exc = "KeyError"
       THEN [exc |-> "", doc |-> doc_add_paragraph(styled.doc, text, "").doc,
             msg |-> "WarningStyleNotFound"]
     ELSE [exc |-> styled.exc, doc |-> styled.doc, msg |-> ""]

\* an add_paragraph that would load the document again just before it changes
\* and saves it
add_paragraph_loaded_again(files, doc_id, ld, text, style, formatting) ==
  LET now == load_document(files, doc_id)
      st1 == probe_paragraph_style(now.doc, style)
      st2 == add_actual_paragraph(st1.doc, text, st1.style, st1.msg)
      fmt == FormatLast(st2.doc, formatting)
  IN IF ld.exc # "" \/ now.exc # "" THEN NotFound(files)
     ELSE IF st1.exc # "" THEN Raised(st1.exc, files)
     ELSE IF st2.exc # "" THEN Raised(st2.exc, files)
     ELSE IF fmt.exc # "" THEN Raised(fmt.exc, files)
     ELSE Result(IF st2.msg = "ParagraphAdded" THEN "ok" ELSE "warning", st2.msg,
                 save(files, get_document_path(doc_id), fmt.doc))

\* add_paragraph after "document = load_document(doc_id)": ld is what that
\* call gave, files the file system at the save
add_paragraph_loaded(files, doc_id, ld, text, style, formatting) ==
  LET st1 == probe_paragraph_style(ld.doc, style)
      st2 == add_actual_paragraph(st1.doc, text, st1.style, st1.msg)
      fmt == FormatLast(st2.doc, formatting)
  IN IF ld.exc # "" THEN NotFound(files)
     ELSE IF st1.exc # "" THEN Raised(st1.exc, files)
     ELSE IF st2.exc # "" THEN Raised(st2.exc, files)
     ELSE IF fmt.exc # "" THEN Raised(fmt.exc, files)
     ELSE Result(IF st2.msg = "ParagraphAdded" THEN "ok" ELSE "warning", st2.msg,
                 save(files, get_document_path(doc_id), fmt.doc))

add_paragraph(files, doc_id, text, style, formatting) ==
  add_paragraph_loaded(files, doc_id, load_document(files, doc_id), text, style, formatting)

\* the style probe of add_table: a temporary 1x1 table is given the style and
\* removed; on KeyError the handler returns at once and the temporary table
\* goes with the unsaved document
probe_table_style(document, style) ==
  LET probe == last_table_set_style(doc_add_table(document, 1, 1), style)
  IN IF style = "" \/ style_exists(document, style, "table")
       THEN [exc |-> "", doc |-> document]
     ELSE IF probe.exc = "" THEN [exc |-> "", doc |-> remove_last(probe.doc)]
     ELSE [exc |-> probe.exc, doc |-> probe.doc]

\* a filling step that would demand exactly rows*cols values instead of padding
fill_table_exact(table, rows, cols, data) ==
  LET data_list == Split(data, ",")
  IN IF data = <<>> THEN [err |-> FALSE, table |-> table]
     ELSE IF Len(data_list) # rows * cols THEN [err |-> TRUE, table |-> table]
     ELSE [err |-> FALSE, table |-> [table EXCEPT !.cells = FillCells(rows, cols, data_list)]]

\* "Fill with data if provided": split, reject too many values, pad, fill
fill_table(table, rows, cols, data) ==
  LET data_list == Split(data, ",")
      padded == data_list \o [k \in 1..(rows * cols - Len(data_list)) |-> <<>>]
  IN IF data = <<>> THEN [err |-> FALSE, table |-> table]
     ELSE IF Len(data_list) > rows * cols THEN [err |-> TRUE, table |-> table]
     ELSE [err |-> FALSE, table |-> [table EXCEPT !.cells = FillCells(rows, cols, padded)]]

add_table(files, doc_id, rows, cols, data, style) ==
  LET ld == load_document(files, doc_id)
      st1 == probe_table_style(ld.doc, style)
      added == doc_add_table(st1.doc, rows, cols)
      styled == IF style = "" THEN [exc |-> "", doc |-> added]
                ELSE last_table_set_style(added, style)
      filled == fill_table(styled.doc.body[Len(styled.doc.body)], rows, cols, data)
  IN IF ld.exc # "" THEN NotFound(files)
     ELSE IF st1.exc = "KeyError" THEN Result("warning", "TableStyleNotFound", files)
     ELSE IF st1.exc # "" THEN Raised(st1.exc, files)
     ELSE IF styled.exc = "KeyError" THEN Result("warning", "StyleNotFound", files)
     ELSE IF styled.exc # "" THEN Raised(styled.exc, files)
     ELSE IF filled.err THEN Result("error", "DataExceedsDimensions", files)
     ELSE Result("ok", "TableAdded",
                 save(files, get_document_path(doc_id),
                      [styled.doc EXCEPT !.body[Len(styled.doc.body)] = filled.table]))

\* add_heading's style probe: the throwaway paragraph is removed when the
\* style assignment did not raise; "except KeyError: pass" leaves it in the body
heading_probe(document, level) ==
  LET probe == doc_add_paragraph(document, <<>>, HeadingStyle(level))
  IN IF style_name_exists(document, HeadingStyle(level)) THEN [exc |-> "", doc |-> document]
     ELSE IF probe.exc = "" THEN [exc |-> "", doc |-> remove_last(probe.doc)]
     ELSE IF probe.exc = "KeyError" THEN [exc |-> "", doc |-> probe.doc]
     ELSE probe

add_heading(files, doc_id, text, level, formatting) ==
  LET ld == load_document(files, doc_id)
      st1 == heading_probe(ld.doc, level)
      h == doc_add_heading(st1.doc, text, level)
      fmt == FormatLast(h.doc, formatting)
  IN IF ld.exc # "" THEN NotFound(files)
     ELSE IF st1.exc # "" THEN Raised(st1.exc, files)
     ELSE IF h.exc # "" THEN Raised(h.exc, files)
     ELSE IF fmt.exc # "" THEN Raised(fmt.exc, files)
     ELSE Result("ok", "HeadingAdded", save(files, get_document_path(doc_id), fmt.doc))

\* merge_table_cells from "table = document.tables[table_index]" on, the
\* table being at position tpos of the body
merge_in_table(files, doc_id, document, tpos, start_row, start_col, end_row, end_col) ==
  IF tpos = 0 THEN Raised("IndexError", files)
  ELSE IF start_row < 0 \/ end_row >= document.body[tpos].rows \/ start_col < 0
    THEN Result("error", "RowOrColumnOutOfRange", files)
  ELSE IF TableCell(document.body[tpos], start_row, start_col) = NoCell
            \/ TableCell(document.body[tpos], end_row, end_col) = NoCell
    THEN Raised("IndexError", files)
  ELSE Result("ok", "CellsMerged",
              save(files, get_document_path(doc_id),
                   [document EXCEPT !.body[tpos] =
                      cell_merge(@, TableCell(@, start_row, start_col),
                                 TableCell(@, end_row, end_col))]))

merge_table_cells(files, doc_id, table_index, start_row, start_col, end_row, end_col) ==
  IF load_document(files, doc_id).exc # "" THEN NotFound(files)
  ELSE IF Len(Tables(load_document(files, doc_id).doc)) <= table_index
    THEN Result("error", "TableIndexOutOfRange", files)
  ELSE merge_in_table(files, doc_id, load_document(files, doc_id).doc,
                      TablePos(load_document(files, doc_id).doc, table_index),
                      start_row, start_col, end_row, end_col)

-----------------------------------------------------------------------------
(* Table tools (tools/document_table.py) *)

\* "try: table.style = style; except: pass" for the table added last
tools_table_style(document, style) ==
  IF style = "" \/ last_table_set_style(document, style).exc # "" THEN document
  ELSE last_table_set_style(document, style).doc

\* "if cell_idx < len(values): table.cell(i, j).text = values[cell_idx].strip()"
tools_fill(table, cols, values) ==
  [table EXCEPT !.cells =
     [i \in DOMAIN @ |-> [j \in DOMAIN @[i] |->
        IF i * cols + j < Len(values) THEN Strip(values[i * cols + j + 1]) ELSE @[i][j]]]]

\* the table added last, filled "if data"
tools_table_data(document, cols, data) ==
  IF data = <<>> THEN document
  ELSE [document EXCEPT !.body[Len(document.body)] = tools_fill(@, cols, Split(data, ","))]

\* add_table of the tool layer from "try:" on: the index of the new table is
\* returned and save_document writes to the documents directory
tools_add_to(files, documents_dir, document_name, document) ==
  Returned("TableIndex", Len(Tables(document)) - 1,
           save(files, documents_path(documents_dir, document_name), document))

\* load_document is called before the "try:"
tools_add_table(files, documents_dir, document_name, rows, cols, data, style) ==
  IF load_document(files, document_name).exc # ""
    THEN Escaped(load_document(files, document_name).exc, files)
  ELSE tools_add_to(files, documents_dir, document_name,
         tools_table_data(
           tools_table_style(
             doc_add_table(load_document(files, document_name).doc, rows, cols), style),
           cols, data))

\* the 2D list of cell.text of a table
TableData(table) ==
  [i \in 1..table.rows |-> [j \in 1..table.cols |-> table.cells[i - 1][j - 1]]]

\* get_table_data of the tool layer: [] for an index out of range
tools_get_table_data(files, document_name, table_index) ==
  IF load_document(files, document_name).exc # ""
    THEN Escaped(load_document(files, document_name).exc, files)
  ELSE IF table_index < 0 \/ table_index >= Len(Tables(load_document(files, document_name).doc))
    THEN Returned("TableData", <<>>, files)
  ELSE Returned("TableData",
                TableData(Tables(load_document(files, document_name).doc)[table_index + 1]),
                files)

-----------------------------------------------------------------------------
(* Section tools (tools/document_section.py) *)

\* "if orientation.upper() == 'LANDSCAPE'": width and height are exchanged
\* whatever the section is; "else": PORTRAIT, exchanged when the page is wider
\* than high
tools_turn(section, orientation) ==
  IF Upper(orientation) = "LANDSCAPE"
    THEN [section EXCEPT !.orientation = "LANDSCAPE",
                         !.page_width = section.page_height,
                         !.page_height = section.page_width]
  ELSE IF section.page_width > section.page_height
    THEN [section EXCEPT !.orientation = "PORTRAIT",
                         !.page_width = section.page_height,
                         !.page_height = section.page_width]
  ELSE [section EXCEPT !.orientation = "PORTRAIT"]

\* change_page_orientation of the tool layer: load_document is called before
\* the "try:", the result is True or False, and save_document writes to the
\* documents directory
tools_change_page_orientation(files, documents_dir, document_name, section_index, orientation) ==
  LET ld == load_document(files, document_name)
  IN IF ld.exc # "" THEN Escaped(ld.exc, files)
     ELSE IF section_index < 0 \/ section_index >= Len(ld.doc.sections)
       THEN Returned("Changed", FALSE, files)
     ELSE Returned("Changed", TRUE,
                   save(files, documents_path(documents_dir, document_name),
                        [ld.doc EXCEPT !.sections[section_index + 1] =
                           tools_turn(@, orientation)]))

-----------------------------------------------------------------------------
(* Section operations (mcp_docx_server/section_ops.py) *)

\* the section_types map: WD_SECTION members by name, with their integer values
SectionTypes ==
  [NEW_PAGE |-> 2, EVEN_PAGE |-> 3, ODD_PAGE |-> 4, CONTINUOUS |-> 0]

\* document.sections[section_index] as Python indexes a list: the position of
\* the section, 0 where the index raises IndexError
SectionPos(document, section_index) ==
  LET n == Len(document.sections)
  IN IF section_index >= 0
       THEN (IF section_index < n THEN section_index + 1 ELSE 0)
     ELSE IF section_index >= -n THEN n + section_index + 1
     ELSE 0

\* document.add_section(start_type): the last section's properties move into
\* a new empty paragraph and a copy of them, with no header or footer
\* definition, becomes the new last section
doc_add_section(document, start_type) ==
  LET last == document.sections[Len(document.sections)]
  IN [document EXCEPT
        !.body = Append(@, NewParagraph(<<>>)),
        !.sections = Append(@, [last EXCEPT !.start_type = start_type,
                                            !.header = LinkedHF,
                                            !.footer = LinkedHF])]

\* "if not section_type" is true for an unknown name (None) and for the enum
\* member whose integer value is 0
add_section(files, doc_id, start_type) ==
  LET ld == load_document(files, doc_id)
      name == Upper(start_type)
  IN IF ld.exc # "" THEN NotFound(files)
     ELSE IF name \notin DOMAIN SectionTypes \/ SectionTypes[name] = 0
          THEN Result("error", "InvalidStartType", files)
     ELSE Result("ok", "SectionAdded",
                 save(files, get_document_path(doc_id), doc_add_section(ld.doc, name)))

\* "if 'start_type' in properties": r is [err, sec], the section so far
sec_start_type(r, properties) ==
  IF "start_type" \notin DOMAIN properties THEN r
  ELSE IF properties["start_type"].t # "str" THEN [r EXCEPT !.err = "AttributeError"]
  ELSE IF Upper(properties["start_type"].s) \in DOMAIN SectionTypes
       THEN [r EXCEPT !.sec.start_type = Upper(properties["start_type"].s)]
  ELSE [r EXCEPT !.err = "InvalidStartType"]

\* an orientation step that would exchange width and height whatever else
\* the call supplies
sec_orientation_always(r, properties) ==
  IF r.err # "" \/ "orientation" \notin DOMAIN properties THEN r
  ELSE IF properties["orientation"].t # "str" THEN [r EXCEPT !.err = "AttributeError"]
  ELSE IF Upper(properties["orientation"].s) \notin {"LANDSCAPE", "PORTRAIT"}
       THEN [r EXCEPT !.err = "InvalidOrientation"]
  ELSE IF r.sec.orientation = Upper(properties["orientation"].s) THEN r
  ELSE [r EXCEPT !.sec.orientation = Upper(properties["orientation"].s),
                 !.sec.page_width = r.sec.page_height,
                 !.sec.page_height = r.sec.page_width]

\* "if 'orientation' in properties": the two branches are the same text with
\* LANDSCAPE and PORTRAIT exchanged
sec_orientation(r, properties) ==
  IF r.err # "" \/ "orientation" \notin DOMAIN properties THEN r
  ELSE IF properties["orientation"].t # "str" THEN [r EXCEPT !.err = "AttributeError"]
  ELSE IF Upper(properties["orientation"].s) \notin {"LANDSCAPE", "PORTRAIT"}
       THEN [r EXCEPT !.err = "InvalidOrientation"]
  ELSE IF r.sec.orientation = Upper(properties["orientation"].s) THEN r
  ELSE IF "page_width" \notin DOMAIN properties /\ "page_height" \notin DOMAIN properties
       THEN [r EXCEPT !.sec.orientation = Upper(properties["orientation"].s),
                      !.sec.page_width = r.sec.page_height,
                      !.sec.page_height = r.sec.page_width]
  ELSE [r EXCEPT !.sec.orientation = Upper(properties["orientation"].s)]

\* "setattr(section, key, int(float(properties[key]) * 914400))", the value
\* then being what the file holds
sec_set_length(r, properties, key) ==
  IF r.err # "" \/ key \notin DOMAIN properties THEN r
  ELSE IF Float(properties[key]).exc # "" THEN [r EXCEPT !.err = Float(properties[key]).exc]
  ELSE [r EXCEPT !.sec[key] = TwipRound(Inches(Float(properties[key]).v))]

\* the page dimensions and then the margins, in the order of the handler
LengthProps ==
  << "page_width", "page_height", "left_margin", "right_margin", "top_margin",
     "bottom_margin", "gutter", "header_distance", "footer_distance" >>

RECURSIVE sec_set_lengths(_, _, _)
sec_set_lengths(r, properties, i) ==
  IF i > Len(LengthProps) THEN r
  ELSE sec_set_lengths(sec_set_length(r, properties, LengthProps[i]), properties, i + 1)

\* the end of set_section_properties: an error message, or the save
sec_save(files, doc_id, document, pos, r) ==
  IF r.err \in {"InvalidStartType", "InvalidOrientation"} THEN Result("error", r.err, files)
  ELSE IF r.err # "" THEN Raised(r.err, files)
  ELSE Result("ok", "PropertiesUpdated",
              save(files, get_document_path(doc_id),
                   [document EXCEPT !.sections[pos] = r.sec]))

set_section_properties(files, doc_id, section_index, properties) ==
  LET ld == load_document(files, doc_id)
      pos == SectionPos(ld.doc, section_index)
  IN IF ld.exc # "" THEN NotFound(files)
     ELSE IF section_index >= Len(ld.doc.sections)
          THEN Result("error", "SectionIndexOutOfRange", files)
     ELSE IF pos = 0 THEN Raised("IndexError", files)
     ELSE sec_save(files, doc_id, ld.doc, pos,
                   sec_set_lengths(
                     sec_orientation(
                       sec_start_type([err |-> "", sec |-> ld.doc.sections[pos]], properties),
                       properties),
                     properties, 1))

change_page_orientation(files, doc_id, section_index, orientation) ==
  set_section_properties(files, doc_id, section_index, [orientation |-> orientation])

-----------------------------------------------------------------------------
(* Header and footer operations (mcp_docx_server/header_footer_ops.py);
   kind is "header" or "footer", the two families of handlers being the same
   text with the one word exchanged *)

\* the style of the paragraph in a new header or footer part, which is also
\* the default style of a content paragraph
HFStyle(kind) == IF kind = "header" THEN "Header" ELSE "Footer"

\* is_linked_to_previous = False on a linked header: a new definition holding
\* one empty paragraph
NewHF(kind) ==
  [linked |-> FALSE, paras |-> <<[NewParagraph(<<>>) EXCEPT !.style = HFStyle(kind)]>>]

\* the outcome of the temporary paragraph that add_header adds to the document
\* body to define its default style: removed when the style resolved, left in
\* place and the style given up on KeyError
hf_probe(style, probe) ==
  IF probe.exc = "" THEN [exc |-> "", doc |-> remove_last(probe.doc), style |-> style]
  ELSE IF probe.exc = "KeyError" THEN [exc |-> "", doc |-> probe.doc, style |-> ""]
  ELSE [exc |-> probe.exc, doc |-> probe.doc, style |-> style]

\* "if not style_exists_in_doc and style == 'Header': try: ..."
hf_style(document, style, kind) ==
  IF ~style_name_exists(document, style) /\ style = HFStyle(kind)
  THEN hf_probe(style, doc_add_paragraph(document, <<>>, style))
  ELSE [exc |-> "", doc |-> document, style |-> style]

\* "para = header.add_paragraph(item_text)", the style assigned unless the
\* lookup raises, the formatting applied; st is the outcome of hf_style and
\* fmt that of the formatting
hf_paragraph(hf, st, item_text, fmt) ==
  LET sid == get_style_id(st.doc, st.style, "paragraph")
      style_id == IF st.style # "" /\ sid.exc = "" THEN sid.id ELSE ""
  IN IF st.exc # "" THEN [exc |-> st.exc, doc |-> st.doc, hf |-> hf]
     ELSE IF fmt.exc # "" THEN [exc |-> fmt.exc, doc |-> st.doc, hf |-> hf]
     ELSE [exc |-> "", doc |-> st.doc,
           hf |-> [hf EXCEPT !.paras =
                     Append(@, [NewParagraph(item_text) EXCEPT !.style = style_id,
                                                               !.pf = fmt.pf])]]

\* one item of the content list of add_header / add_footer
hf_add_item(document, hf, kind, item) ==
  CASE Lower(GetOr(item, "type", "")) = "paragraph" ->
         hf_paragraph(hf, hf_style(document, GetOr(item, "style", HFStyle(kind)), kind),
                      GetOr(item, "text", <<>>),
                      apply_paragraph_formatting(DefaultParaFormat,
                                                 GetOr(item, "formatting", <<>>)))
    \* header.add_table(rows=rows, cols=cols) lacks the width argument the
    \* library requires of a header, footer or cell
    [] Lower(GetOr(item, "type", "")) = "table" ->
         [exc |-> "TypeError", doc |-> document, hf |-> hf]
    [] OTHER -> [exc |-> "", doc |-> document, hf |-> hf]

RECURSIVE hf_add_content(_, _, _, _)

\* the loop over the content list goes on after an item unless it raised
hf_next_item(r, kind, rest) ==
  IF r.exc # "" THEN r ELSE hf_add_content(r.doc, r.hf, kind, rest)

hf_add_content(document, hf, kind, content) ==
  IF content = <<>> THEN [exc |-> "", doc |-> document, hf |-> hf]
  ELSE hf_next_item(hf_add_item(document, hf, kind, Head(content)), kind, Tail(content))

\* "for paragraph in header.paragraphs[1:]: remove" and "first_paragraph.text
\* = text": one paragraph is left, holding one run with the text
hf_first(hf, text) ==
  [hf EXCEPT !.paras = <<[hf.paras[1] EXCEPT !.runs = <<NewRun(text)>>]>>]

\* "if header.is_linked_to_previous: header.is_linked_to_previous = False"
hf_unlink(hf, kind) == IF hf.linked THEN NewHF(kind) ELSE hf

\* the save at the end of add_header / add_footer, unless the content raised
hf_save(files, doc_id, kind, pos, r) ==
  IF r.exc # "" THEN Raised(r.exc, files)
  ELSE Result("ok", "Added",
              save(files, get_document_path(doc_id),
                   [r.doc EXCEPT !.sections[pos][kind] = r.hf]))

\* add_header / add_footer: text is <<>> for None
add_hf(files, doc_id, kind, section_index, text, content) ==
  LET ld == load_document(files, doc_id)
      pos == SectionPos(ld.doc, section_index)
  IN IF ld.exc # "" THEN NotFound(files)
     ELSE IF section_index >= Len(ld.doc.sections)
          THEN Result("error", "SectionIndexOutOfRange", files)
     ELSE IF pos = 0 THEN Raised("IndexError", files)
     ELSE hf_save(files, doc_id, kind, pos,
                  hf_add_content(ld.doc,
                                 hf_first(hf_unlink(ld.doc.sections[pos][kind], kind), text),
                                 kind, content))

add_header(files, doc_id, section_index, text, content) ==
  add_hf(files, doc_id, "header", section_index, text, content)

add_footer(files, doc_id, section_index, text, content) ==
  add_hf(files, doc_id, "footer", section_index, text, content)

\* add_zoned_header / add_zoned_footer: the three texts joined by tabs, a
\* missing centre leaving its tab in place when there is a right text
zoned_text(left_text, center_text, right_text) ==
  IF center_text # <<>>
    THEN left_text \o <<"\t">> \o center_text
           \o (IF right_text # <<>> THEN <<"\t">> \o right_text ELSE <<>>)
  ELSE IF right_text # <<>> THEN left_text \o <<"\t", "\t">> \o right_text
  ELSE left_text

\* "paragraph.text = header_text; try: paragraph.style = document.styles['Header']
\* except: pass" on the one paragraph left, and the save; st is the outcome
\* of the temporary paragraph
zoned_save(files, doc_id, kind, pos, st, hf) ==
  LET sid == get_style_id(st.doc, HFStyle(kind), "paragraph")
  IN IF st.exc # "" THEN Raised(st.exc, files)
     ELSE Result("ok", "ZonedAdded",
                 save(files, get_document_path(doc_id),
                      [st.doc EXCEPT !.sections[pos][kind] =
                         [hf EXCEPT !.paras[1].style = IF sid.exc = "" THEN sid.id ELSE @]]))

add_zoned_hf(files, doc_id, kind, section_index, left_text, center_text, right_text) ==
  LET ld == load_document(files, doc_id)
      pos == SectionPos(ld.doc, section_index)
  IN IF ld.exc # "" THEN NotFound(files)
     ELSE IF section_index >= Len(ld.doc.sections)
          THEN Result("error", "SectionIndexOutOfRange", files)
     ELSE IF pos = 0 THEN Raised("IndexError", files)
     ELSE zoned_save(files, doc_id, kind, pos,
                     hf_style(ld.doc, HFStyle(kind), kind),
                     hf_first(hf_unlink(ld.doc.sections[pos][kind], kind),
                              zoned_text(left_text, center_text, right_text)))

add_zoned_header(files, doc_id, section_index, left_text, center_text, right_text) ==
  add_zoned_hf(files, doc_id, "header", section_index, left_text, center_text, right_text)

add_zoned_footer(files, doc_id, section_index, left_text, center_text, right_text) ==
  add_zoned_hf(files, doc_id, "footer", section_index, left_text, center_text, right_text)

\* a removal that would link the header or footer of every section
remove_hf_everywhere(files, doc_id, kind, section_index) ==
  LET ld == load_document(files, doc_id)
      document == ld.doc
      pos == SectionPos(document, section_index)
  IN IF ld.exc # "" THEN NotFound(files)
     ELSE IF section_index >= Len(document.sections)
          THEN Result("error", "SectionIndexOutOfRange", files)
     ELSE IF pos = 0 THEN Raised("IndexError", files)
     ELSE Result("ok", "Removed",
                 save(files, get_document_path(doc_id),
                      [document EXCEPT !.sections =
                         [j \in DOMAIN @ |-> [@[j] EXCEPT ![kind] = LinkedHF]]]))

\* remove_header / remove_footer: is_linked_to_previous = True drops the definition
remove_hf(files, doc_id, kind, section_index) ==
  LET ld == load_document(files, doc_id)
      document == ld.doc
      pos == SectionPos(document, section_index)
  IN IF ld.exc # "" THEN NotFound(files)
     ELSE IF section_index >= Len(document.sections)
          THEN Result("error", "SectionIndexOutOfRange", files)
     ELSE IF pos = 0 THEN Raised("IndexError", files)
     ELSE Result("ok", "Removed",
                 save(files, get_document_path(doc_id),
                      [document EXCEPT !.sections[pos][kind] = LinkedHF]))

remove_header(files, doc_id, section_index) == remove_hf(files, doc_id, "header", section_index)

remove_footer(files, doc_id, section_index) == remove_hf(files, doc_id, "footer", section_index)

\* the text extraction at the end of get_header_text / get_footer_text
hf_own_text(hf) ==
  IF hf.paras = <<>> THEN [kind |-> "ok", msg |-> "DefinedButNoText"]
  ELSE [kind |-> "ok", msg |-> "Text",
        text |-> Join([k \in 1..Len(hf.paras) |-> ParaText(hf.paras[k])], NL)]

\* a backward walk that would stop at the first section of the document
\* instead of the nearest one with a definition
hf_walk_to_first(document, kind, linked_section_index) ==
  IF \E j \in 0..(linked_section_index - 1) : ~document.sections[j + 1][kind].linked
  THEN LET j == CHOOSE j \in 0..(linked_section_index - 1) :
                  /\ ~document.sections[j + 1][kind].linked
                  /\ \A i \in 0..(j - 1) : document.sections[i + 1][kind].linked
       IN [kind |-> "ok", msg |-> "LinkedTo", section |-> j,
           content |-> hf_own_text(document.sections[j + 1][kind])]
  ELSE [kind |-> "ok", msg |-> "NoneDefined"]

\* "while linked_section_index > 0": one step back per turn; at the first
\* section with a definition the handler calls itself on that section, which
\* loads the same file and extracts the text
RECURSIVE hf_walk(_, _, _)
hf_walk(document, kind, linked_section_index) ==
  IF linked_section_index > 0
  THEN IF ~document.sections[linked_section_index][kind].linked
       THEN [kind |-> "ok", msg |-> "LinkedTo", section |-> linked_section_index - 1,
             content |-> hf_own_text(document.sections[linked_section_index][kind])]
       ELSE hf_walk(document, kind, linked_section_index - 1)
  ELSE [kind |-> "ok", msg |-> "NoneDefined"]

\* a get_header_text that would read the paragraphs of a linked header, for
\* which the library adds a definition to the first section, and save
get_hf_text_defining(files, doc_id, kind, section_index) ==
  LET ld == load_document(files, doc_id)
      document == ld.doc
      pos == SectionPos(document, section_index)
      hf == document.sections[pos][kind]
  IN IF ld.exc # "" THEN NotFound(files)
     ELSE IF section_index >= Len(document.sections)
          THEN Result("error", "SectionIndexOutOfRange", files)
     ELSE IF pos = 0 THEN Raised("IndexError", files)
     ELSE IF hf.linked
          THEN [ret |-> hf_walk(document, kind, section_index),
                files |-> save(files, get_document_path(doc_id),
                               [document EXCEPT !.sections[1][kind] =
                                  IF @.linked THEN NewHF(kind) ELSE @])]
     ELSE [ret |-> hf_own_text(hf), files |-> files]

\* get_header_text / get_footer_text
get_hf_text(files, doc_id, kind, section_index) ==
  LET ld == load_document(files, doc_id)
      document == ld.doc
      pos == SectionPos(document, section_index)
      hf == document.sections[pos][kind]
  IN IF ld.exc # "" THEN NotFound(files)
     ELSE IF section_index >= Len(document.sections)
          THEN Result("error", "SectionIndexOutOfRange", files)
     ELSE IF pos = 0 THEN Raised("IndexError", files)
     ELSE IF hf.linked
          THEN [ret |-> hf_walk(document, kind, section_index), files |-> files]
     ELSE [ret |-> hf_own_text(hf), files |-> files]

get_header_text(files, doc_id, section_index) == get_hf_text(files, doc_id, "header", section_index)

get_footer_text(files, doc_id, section_index) == get_hf_text(files, doc_id, "footer", section_index)

\* "while linked_section_index > 0: linked_section_index -= 1; if not
\* prev_header.is_linked_to_previous: return ... get_header_text(doc_id,
\* linked_section_index)": the section index of the nested call, -1 when the
\* loop ends without one
RECURSIVE hf_nested_index(_, _, _)
hf_nested_index(document, kind, linked_section_index) ==
  IF linked_section_index > 0
  THEN IF ~document.sections[linked_section_index][kind].linked
       THEN linked_section_index - 1
       ELSE hf_nested_index(document, kind, linked_section_index - 1)
  ELSE -1

\* an invocation whose nested call would be on the section it was asked about
hf_invocation_again(files, doc_id, kind, section_index) ==
  LET ld == load_document(files, doc_id)
      document == ld.doc
      pos == SectionPos(document, section_index)
      hf == document.sections[pos][kind]
  IN IF ld.exc # "" THEN [nested |-> FALSE, ret |-> NotFound(files).ret]
     ELSE IF section_index >= Len(document.sections)
          THEN [nested |-> FALSE, ret |-> [kind |-> "error", msg |-> "SectionIndexOutOfRange"]]
     ELSE IF pos = 0 THEN [nested |-> FALSE, ret |-> Raised("IndexError", files).ret]
     ELSE IF ~hf.linked THEN [nested |-> FALSE, ret |-> hf_own_text(hf)]
     ELSE IF hf_nested_index(document, kind, section_index) >= 0
          THEN [nested |-> TRUE, index |-> section_index]
     ELSE [nested |-> FALSE, ret |-> [kind |-> "ok", msg |-> "NoneDefined"]]

\* one invocation of get_header_text / get_footer_text, from its own
\* load_document to its return or to the nested call it makes
hf_invocation(files, doc_id, kind, section_index) ==
  LET ld == load_document(files, doc_id)
      document == ld.doc
      pos == SectionPos(document, section_index)
      hf == document.sections[pos][kind]
  IN IF ld.exc # "" THEN [nested |-> FALSE, ret |-> NotFound(files).ret]
     ELSE IF section_index >= Len(document.sections)
          THEN [nested |-> FALSE, ret |-> [kind |-> "error", msg |-> "SectionIndexOutOfRange"]]
     ELSE IF pos = 0 THEN [nested |-> FALSE, ret |-> Raised("IndexError", files).ret]
     ELSE IF ~hf.linked THEN [nested |-> FALSE, ret |-> hf_own_text(hf)]
     ELSE IF hf_nested_index(document, kind, section_index) >= 0
          THEN [nested |-> TRUE, index |-> hf_nested_index(document, kind, section_index)]
     ELSE [nested |-> FALSE, ret |-> [kind |-> "ok", msg |-> "NoneDefined"]]

-----------------------------------------------------------------------------
(* Read tools (mcp_docx_server: document_ops.py, content_ops.py,
   section_ops.py, style_ops.py); none of them calls document.save *)

\* element.style.name: the style of the stored id, the default style of the
\* kind when the element stores none
style_of(document, style_id, kind) ==
  LET named == {s \in document.styles : s.style_id = style_id}
      defaults == {s \in document.styles : s.type = kind /\ s.default}
  IN IF style_id # "" /\ named # {} THEN StyleName(CHOOSE s \in named : TRUE)
     ELSE IF defaults # {} THEN StyleName(CHOOSE s \in defaults : TRUE)
     ELSE "Default"

\* check_document_exists: the number of paragraphs of a file that is there
check_document_exists(files, doc_id) ==
  IF files[get_document_path(doc_id)] = NoFile THEN Result("ok", "DoesNotExist", files)
  ELSE Returned("ExistsReadable", Len(Paragraphs(files[get_document_path(doc_id)])), files)

\* list_available_documents: the .docx files of the server directory
list_available_documents(files) ==
  IF \A d \in DocIds : files[get_document_path(d)] = NoFile
    THEN Result("ok", "NoDocuments", files)
  ELSE Returned("Available", {d \in DocIds : files[get_document_path(d)] # NoFile}, files)

\* the lines of analyze_document_structure about one paragraph and one table
paragraph_details(document, para) ==
  IF Strip(ParaText(para)) = <<>> THEN [empty |-> TRUE]
  ELSE [empty |-> FALSE, style |-> style_of(document, para.style, "paragraph"),
        runs |-> [j \in 1..Len(para.runs) |->
                    [bold |-> para.runs[j].font.bold = <<TRUE>>,
                     italic |-> para.runs[j].font.italic = <<TRUE>>,
                     text |-> para.runs[j].text]],
        text |-> ParaText(para)]

table_details(document, table) ==
  [rows |-> table.rows, cols |-> IF table.rows > 0 THEN table.cols ELSE 0,
   style |-> style_of(document, table.style, "table"),
   first |-> IF table.rows > 0 /\ table.cols > 0 THEN table.cells[0][0] ELSE <<>>]

analyze_document_structure(files, doc_id) ==
  LET ld == load_document(files, doc_id)
  IN IF ld.exc # "" THEN NotFound(files)
     ELSE Returned("Structure",
                   [paragraphs |-> [k \in 1..Len(Paragraphs(ld.doc)) |->
                                      paragraph_details(ld.doc, Paragraphs(ld.doc)[k])],
                    tables |-> [k \in 1..Len(Tables(ld.doc)) |->
                                  table_details(ld.doc, Tables(ld.doc)[k])]],
                   files)

list_tables(files, doc_id) ==
  LET ld == load_document(files, doc_id)
  IN IF ld.exc # "" THEN NotFound(files)
     ELSE IF Tables(ld.doc) = <<>> THEN Result("ok", "NoTables", files)
     ELSE Returned("Tables",
                   [k \in 1..Len(Tables(ld.doc)) |-> table_details(ld.doc, Tables(ld.doc)[k])],
                   files)

\* get_table_data of a table without merged cells: "len(document.tables) <=
\* table_index" lets a negative index through to document.tables[table_index]
get_table_data(files, doc_id, table_index) ==
  LET ld == load_document(files, doc_id)
  IN IF ld.exc # "" THEN NotFound(files)
     ELSE IF Len(Tables(ld.doc)) <= table_index
       THEN Result("error", "TableIndexOutOfRange", files)
     ELSE IF TablePos(ld.doc, table_index) = 0 THEN Raised("IndexError", files)
     ELSE Returned("TableData", TableData(ld.doc.body[TablePos(ld.doc, table_index)]), files)

\* list_sections: start type, orientation, page size and margins of every section
list_sections(files, doc_id) ==
  LET ld == load_document(files, doc_id)
  IN IF ld.exc # "" THEN NotFound(files)
     ELSE Returned("Sections",
                   [k \in 1..Len(ld.doc.sections) |->
                      [f \in (DOMAIN ld.doc.sections[k]) \ {"header", "footer"} |->
                         ld.doc.sections[k][f]]],
                   files)

\* list_styles: the style names by type
list_styles(files, doc_id) ==
  LET ld == load_document(files, doc_id)
  IN IF ld.exc # "" THEN NotFound(files)
     ELSE Returned("Styles",
                   [t \in StyleTypeMap |->
                      {StyleName(s) : s \in {x \in ld.doc.styles : x.type = t}}],
                   files)

\* get_styles_detail: style_type is "" for None
get_styles_detail(files, doc_id, style_type) ==
  LET ld == load_document(files, doc_id)
      shown == {s \in ld.doc.styles : style_type = "" \/ s.type = Lower(style_type)}
  IN IF ld.exc # "" THEN NotFound(files)
     ELSE IF style_type # "" /\ Lower(style_type) \notin StyleTypeMap
       THEN Result("error", "InvalidStyleType", files)
     ELSE IF shown = {} THEN Result("ok", "NoStyles", files)
     ELSE Returned("StylesDetail", {[name |-> StyleName(s), type |-> s.type] : s \in shown},
                   files)

\* check_style_usage: the paragraphs, runs or tables whose style has the name
check_style_usage(files, doc_id, style_name) ==
  LET ld == load_document(files, doc_id)
      style == StylesGetItem(ld.doc, style_name)
      paras == Paragraphs(ld.doc)
      tables == Tables(ld.doc)
  IN IF ld.exc # "" THEN NotFound(files)
     ELSE IF style = NoStyle THEN Result("ok", "StyleNotFound", files)
     ELSE Returned("Usage",
            [type |-> style.type,
             locations |->
               CASE style.type = "paragraph" ->
                      {<<i - 1>> : i \in {k \in 1..Len(paras) :
                         style_of(ld.doc, paras[k].style, "paragraph") = style_name}}
                 [] style.type = "character" ->
                      {<<ij[1] - 1, ij[2] - 1>> :
                         ij \in {x \in (1..Len(paras)) \X (1..MaxRuns) :
                                   /\ x[2] <= Len(paras[x[1]].runs)
                                   /\ style_of(ld.doc, paras[x[1]].runs[x[2]].style, "character")
                                        = style_name}}
                 [] OTHER ->
                      {<<i - 1>> : i \in {k \in 1..Len(tables) :
                         style_of(ld.doc, tables[k].style, "table") = style_name}}],
            files)

\* the position in the body of document.paragraphs[paragraph_index]
ParaPos(document, paragraph_index) == ParaPositions(document)[paragraph_index + 1]

\* add_formatted_text without the "paragraph_index < 0" test: a negative index
\* counts from the end of document.paragraphs
add_formatted_text_from_end(files, doc_id, paragraph_index, text, formatting) ==
  LET ld == load_document(files, doc_id)
      document == ld.doc
      count == Len(Paragraphs(document))
      pos == ParaPositions(document)[IF paragraph_index < 0
                                     THEN count + paragraph_index + 1
                                     ELSE paragraph_index + 1]
      withRun == [document EXCEPT !.body[pos].runs = Append(@, NewRun(text))]
      n == Len(withRun.body[pos].runs)
      f == apply_run_formatting(withRun.body[pos].runs[n].font, formatting)
  IN IF ld.exc # "" THEN NotFound(files)
     ELSE IF paragraph_index >= count \/ paragraph_index < -count
          THEN Result("error", "ParagraphIndexOutOfRange", files)
     ELSE IF f.exc # "" THEN Raised(f.exc, files)
     ELSE Result("ok", "FormattedTextAdded",
                 save(files, get_document_path(doc_id),
                      [withRun EXCEPT !.body[pos].runs[n].font = f.font]))

add_formatted_text(files, doc_id, paragraph_index, text, formatting) ==
  LET ld == load_document(files, doc_id)
      document == ld.doc
      pos == ParaPos(document, paragraph_index)
      \* paragraph.add_run(text): a run is appended even for an empty text
      withRun == [document EXCEPT !.body[pos].runs = Append(@, NewRun(text))]
      n == Len(withRun.body[pos].runs)
      f == apply_run_formatting(withRun.body[pos].runs[n].font, formatting)
  IN IF ld.exc # "" THEN NotFound(files)
     ELSE IF paragraph_index < 0 \/ paragraph_index >= Len(Paragraphs(document))
          THEN Result("error", "ParagraphIndexOutOfRange", files)
     ELSE IF f.exc # "" THEN Raised(f.exc, files)
     ELSE Result("ok", "FormattedTextAdded",
                 save(files, get_document_path(doc_id),
                      [withRun EXCEPT !.body[pos].runs[n].font = f.font]))

set_paragraph_properties(files, doc_id, paragraph_index, formatting) ==
  LET ld == load_document(files, doc_id)
      document == ld.doc
      pos == ParaPos(document, paragraph_index)
      f == apply_paragraph_formatting(document.body[pos].pf, formatting)
  IN IF ld.exc # "" THEN NotFound(files)
     ELSE IF paragraph_index < 0 \/ paragraph_index >= Len(Paragraphs(document))
          THEN Result("error", "ParagraphIndexOutOfRange", files)
     ELSE IF f.exc # "" THEN Raised(f.exc, files)
     ELSE Result("ok", "ParagraphPropertiesSet",
                 save(files, get_document_path(doc_id),
                      [document EXCEPT !.body[pos].pf = f.pf]))

set_text_properties(files, doc_id, paragraph_index, run_index, formatting) ==
  LET ld == load_document(files, doc_id)
      document == ld.doc
      pos == ParaPos(document, paragraph_index)
      f == apply_run_formatting(document.body[pos].runs[run_index + 1].font, formatting)
  IN IF ld.exc # "" THEN NotFound(files)
     ELSE IF paragraph_index < 0 \/ paragraph_index >= Len(Paragraphs(document))
          THEN Result("error", "ParagraphIndexOutOfRange", files)
     ELSE IF run_index < 0 \/ run_index >= Len(document.body[pos].runs)
          THEN Result("error", "RunIndexOutOfRange", files)
     ELSE IF f.exc # "" THEN Raised(f.exc, files)
     ELSE Result("ok", "TextPropertiesSet",
                 save(files, get_document_path(doc_id),
                      [document EXCEPT !.body[pos].runs[run_index + 1].font = f.font]))

-----------------------------------------------------------------------------
(* Inputs *)

TitleChars == {"a", NL}

RECURSIVE SeqsUpTo(_, _)
\* the sequences over S of length at most n
SeqsUpTo(S, n) ==
  IF n = 0 THEN {<<>>}
  ELSE SeqsUpTo(S, n - 1) \cup {Append(q, c) : q \in SeqsUpTo(S, n - 1), c \in S}

Titles == SeqsUpTo(TitleChars, MaxTitle)

\* names a caller may pass for a style: display names, a stored lower-case
\* name, a style id, and a name no style has
StyleNameArgs == {"Normal", "Heading 1", "heading 1", "Heading1", "Table Grid",
                  "Default Paragraph Font", "Bogus"}

StyleTypeArgs == {"paragraph", "Paragraph", "character", "table", "list"}

ParaTexts == {<<>>, <<"b">>}

ParaStyleArgs == {"", "Heading 1", "Heading1", "Table Grid", "Bogus"}

ParaFormatArgs ==
  { <<>>,
    [alignment |-> Str("center"), space_after |-> Num(600)],
    [space_after |-> Str("abc")] }

\* formatting maps for set_paragraph_properties: a spacing, an alignment
\* with an explicit None, an unknown alignment with a value float() rejects,
\* and the empty map
PropFormatArgs ==
  { <<>>,
    [space_after |-> Num(600)],
    [alignment |-> Str("center"), space_after |-> NoneVal],
    [alignment |-> Str("bogus"), left_indent |-> Str("abc")] }

\* formatting maps for set_paragraph_properties by the kind of their values:
\* an alignment that is a name, an unknown word, a number, each with a
\* spacing; a line spacing that is a number, a string that is one, a string
\* with a unit, a word
ValueFormatArgs ==
  { [alignment |-> Str("Right"), space_after |-> Num(600)],
    [alignment |-> Str("bogus"), space_after |-> Num(1200)],
    [alignment |-> Num(100), space_after |-> Num(1200)],
    [line_spacing |-> Num(200)],
    [line_spacing |-> Str("1.5")],
    [line_spacing |-> Str("12pt"), space_after |-> Num(1200)],
    [line_spacing |-> Str("abc"), space_after |-> Num(1200)] }

RunFormatArgs ==
  { [bold |-> Bool(TRUE), color |-> Str("#FF0000")],
    [size |-> Str("abc")] }

RunTexts == {<<"c">>}

\* table data: none, values with blanks around them, empty values, and from
\* one, two, three and five values
DataArgs ==
  { <<>>,
    <<" ">>,
    <<"a">>,
    <<" ", "a", " ", ",", "b">>,
    <<"a", ",", ",", "b">>,
    <<"a", ",", "b", ",", "c">>,
    <<"a", ",", "b", ",", "c", ",", "d", ",", "e">> }

RowArgs == {0, 1, 2}

ColArgs == {1, 2}

\* (doc_id, rows, cols) arguments: every shape on the document that exists,
\* one on the document that does not
TableTargets == ({"d"} \X RowArgs \X ColArgs) \cup {<<"e", 1, 1>>}

TableStyleArgs == {"", "Table Grid", "TableGrid", "Normal", "No Such Style"}


ParaIndexArgs == {-1, 0, 1, 2}

\* (doc_id, paragraph_index) arguments: every index on the document that
\* exists, one call on the document that does not
ParaTargets == ({"d"} \X ParaIndexArgs) \cup {<<"e", 0>>}

RunIndexArgs == {-1, 0, 1}

\* section indices for a document of one section: the section, the first
\* index past the end, and a negative one that Python counts from the end
OneSectionTargets == ({"d"} \X {-1, 0, 1}) \cup {<<"e", 0>>}

\* property maps: an orientation alone, in either case; with one or both
\* dimensions, in whole and in hundredths of inches; with no orientation;
\* with a start type; and maps the handler refuses
PropertiesArgs ==
  { [orientation |-> Str("LANDSCAPE")],
    [orientation |-> Str("portrait")],
    [orientation |-> Str("LANDSCAPE"), page_width |-> Num(1100)],
    [orientation |-> Str("PORTRAIT"), page_width |-> Num(827), page_height |-> Num(1169)],
    [page_height |-> Num(500), left_margin |-> Num(50)],
    [start_type |-> Str("continuous"), orientation |-> Str("landscape")],
    [orientation |-> Str("diagonal")],
    [start_type |-> Str("bogus"), orientation |-> Str("LANDSCAPE")],
    [orientation |-> Str("PORTRAIT"), top_margin |-> Str("abc")] }

OrientationArgs == {Str("LANDSCAPE"), Str("portrait"), Str("diagonal")}

\* section indices: in range for three sections, the first one past the end,
\* and a negative one that Python counts from the end
SectionIndexArgs == {-1, 0, 1, 2, 3}

\* (doc_id, section_index) arguments: every index on the document that
\* exists, one call on the document that does not
SectionTargets == ({"d"} \X SectionIndexArgs) \cup {<<"e", 0>>}

\* (doc_id, section_index, text, content) arguments of add_header: a text or
\* none on every section; on the first section also a text followed by a
\* content paragraph, and a content table
HeaderArgs ==
  (SectionTargets \X {<<>>, <<"h">>} \X {<<>>})
    \cup { <<<<"d", 0>>, <<"h">>, <<[type |-> "Paragraph", text |-> <<"x">>]>>>>,
           <<<<"d", 0>>, <<>>, <<[type |-> "table", rows |-> 1, cols |-> 1]>>>> }

\* (doc_id, section_index, text, content) arguments of add_footer
FooterArgs == SectionTargets \X {<<"f">>} \X {<<>>}

\* section indices for a document of two sections: in range, the first one
\* past the end, and a negative one that Python counts from the end
TwoSectionTargets == ({"d"} \X {-1, 0, 2}) \cup {<<"e", 0>>}

\* (left_text, center_text, right_text) of a zoned header or footer
ZoneTexts == {<<<<"l">>, <<>>, <<"r">>>>}

\* start types of add_section: the four names, in either case, and a word
\* that is none of them
StartTypeArgs == {"NEW_PAGE", "even_page", "ODD_PAGE", "CONTINUOUS", "continuous", "bogus"}

\* (documents_dir, document_name, section_index, orientation) arguments of the
\* tool layer's change_page_orientation: either orientation, in either case,
\* with the documents directory the default one or the one documents are
\* loaded from; an index out of range; a document that does not exist
ToolsOrientationArgs ==
  (DocumentsDirs \X {"d"} \X {0, 1} \X {"LANDSCAPE", "landscape", "PORTRAIT"})
    \cup {<<"script_dir", "d", 2, "LANDSCAPE">>, <<"script_dir", "d", -1, "LANDSCAPE">>,
          <<"script_dir", "e", 0, "LANDSCAPE">>}

\* (style_name, style_type, base_style) arguments of create_custom_style: a
\* new name and the name of a paragraph style; a kind the handler does not
\* know; as base none, a paragraph style and a table style by their ids, a
\* style by its name, and a name no style has
CustomStyleArgs ==
  ({"Mine", "Normal"} \X {"paragraph", "table"}
     \X {"", "Heading1", "TableGrid", "Table Grid", "Bogus"})
    \cup {<<"Mine", "list", "">>}

\* property maps of set_section_properties among calls that fail: one the
\* handler accepts and three it refuses, one of them after an orientation
\* it accepts
FailingPropertiesArgs ==
  { [orientation |-> Str("LANDSCAPE")],
    [orientation |-> Str("diagonal")],
    [start_type |-> Str("bogus"), orientation |-> Str("LANDSCAPE")],
    [orientation |-> Str("PORTRAIT"), top_margin |-> Str("abc")] }

\* (rows, cols, data, style) arguments of add_table among calls that fail: a
\* table that fits, too many values, and too many values with a style
FailingTableArgs ==
  { <<1, 1, <<"a">>, "">>,
    <<1, 1, <<"a", ",", "b">>, "">>,
    <<1, 1, <<"a", ",", "b">>, "Table Grid">> }

\* (kind, doc_id, section_index) of a get_header_text or get_footer_text that
\* is followed load by load, on a document of three sections
WalkArgs ==
  ({"header"} \X {"d"} \X SectionIndexArgs)
    \cup {<<"header", "e", 0>>, <<"footer", "d", 2>>}

\* the sections whose header other calls define and remove meanwhile
WalkedSections == {0, 1}

\* content blocks
HeadingH == [type |-> "Heading", text |-> <<"h">>]
HeadingTooDeep == [type |-> "heading", text |-> <<"h">>, level |-> 10]
ParaP == [type |-> "paragraph", text |-> <<"p">>]
ParaFormatted ==
  [type |-> "paragraph", text |-> <<"q">>, style |-> "Normal",
   formatting |-> [alignment |-> Str("center")],
   run_formatting |-> [bold |-> Bool(TRUE)]]
ParaBadFormat ==
  [type |-> "paragraph", text |-> <<"p">>, formatting |-> [left_indent |-> Str("abc")]]
ParaUnknownStyle == [type |-> "paragraph", text |-> <<"p">>, style |-> "Nope"]
ParaTableStyle == [type |-> "paragraph", text |-> <<"p">>, style |-> "Table Grid"]
TablePadded == [type |-> "table", rows |-> 2, cols |-> 1, data |-> <<"a">>]
TableTooMany == [type |-> "table", rows |-> 1, cols |-> 1, data |-> <<"a", ",", "b">>]
TableUnknownStyle ==
  [type |-> "table", rows |-> 1, cols |-> 2, data |-> <<"a", ",", "b">>,
   style |-> "No Such Style"]
TableParaStyleTooMany ==
  [type |-> "table", rows |-> 1, cols |-> 1, data |-> <<"a", ",", "b">>, style |-> "Normal"]
TableCellFormatted ==
  [type |-> "table", data |-> <<"a">>, style |-> "Table Grid",
   cell_formatting |->
     << [formatting |-> [alignment |-> Str("center")]],
        [row |-> 5, col |-> 0, formatting |-> [left_indent |-> Str("abc")]] >>]

\* content lists: none; blocks of different kinds in both orders; styles the
\* document does not have; a table with too many values, alone, after another
\* block, and after or with something that raises
ContentArgs ==
  { <<>>,
    <<HeadingH, ParaP>>,
    <<TablePadded, ParaFormatted>>,
    <<TableCellFormatted>>,
    <<ParaUnknownStyle>>,
    <<TableUnknownStyle>>,
    <<TableTooMany>>,
    <<ParaP, TableTooMany>>,
    <<HeadingTooDeep, TableTooMany>>,
    <<ParaBadFormat, TableTooMany>>,
    <<ParaTableStyle, TableTooMany>>,
    <<TableParaStyleTooMany>> }

\* content lists of add_header / add_footer: a heading, a paragraph, both, a
\* table with too many values and a table with too few
HeaderContentArgs ==
  { <<HeadingH>>, <<ParaP>>, <<HeadingH, ParaP>>, <<TableTooMany>>, <<TablePadded>> }

\* content lists of add_footer on the first section
FooterContentArgs == { <<HeadingH>>, <<TableTooMany>> }

\* (doc_id, title, content) arguments of create_complete_document
CompleteArgs == {"d"} \X {<<"a">>} \X ContentArgs

\* (doc_id, title, content, append) arguments of update_document: with and
\* without a title on the document the model creates, one appending call on
\* the document it never creates
UpdateArgs ==
  ({"d"} \X {<<>>, <<"t">>} \X ContentArgs \X BOOLEAN)
    \cup {<<"e", <<>>, <<TableTooMany>>, TRUE>>}

\* add_heading: the title level, a heading level, a level out of range
LevelArgs == {0, 1, 10}

HeadingTexts == {<<"h">>, <<"h", "i">>}

HeadingFormatArgs ==
  { <<>>, [alignment |-> Str("center")], [left_indent |-> Str("abc")] }

\* merge_table_cells: (doc_id, table_index), then the two corners
TableIndexArgs == {-1, 0, 1, 2}

StartArgs == {-1, 0, 1} \X {-1, 0, 1}

EndArgs == {0, 1, 2} \X {0, 1, 2}

\* every table index and pair of corners on the document that exists, one
\* call on the document that does not
MergeArgs ==
  ({<<"d", i>> : i \in TableIndexArgs} \X StartArgs \X EndArgs)
    \cup {<<<<"e", 0>>, <<0, 0>>, <<0, 1>>>>}

\* the table tools: (documents_dir, doc, rows, cols, data, style); every
\* shape on the document that exists, one call on the document that does not
ToolsTableArgs ==
  (DocumentsDirs \X {"d"} \X {1, 2} \X {1} \X {<<>>, <<"a", ",", "b">>} \X {"", "Nope"})
    \cup {<<"documents", "e", 1, 1, <<>>, "">>}

ToolsDataArgs == ({"d"} \X {-1, 0, 1}) \cup {<<"e", 0>>}

\* (doc_id, text, formatting) of the add_paragraph calls two clients make at once
RaceArgs ==
  ({"d"} \X {<<"x">>, <<"y">>} \X {<<>>, [left_indent |-> Str("abc")]})
    \cup {<<"e", <<"x">>, <<>>>>}

-----------------------------------------------------------------------------
(* Calls *)

NoCall == [op |-> "none"]
NoRet == [kind |-> "none", msg |-> ""]

\* pcall in a specification that does not follow the call before the last
Untracked == [op |-> "untracked"]

\* the callers of the server
Clients == {"c1", "c2"}

\* a client with no call in progress
Idle == [at |-> "idle"]

\* a call was made with arguments c and the handler produced res
Commit(c, res) ==
  /\ fs' = res.files
  /\ prev' = fs
  /\ call' = c
  /\ ret' = res.ret
  /\ pcall' = IF pcall = Untracked THEN Untracked ELSE call
  /\ pret' = IF pcall = Untracked THEN NoRet ELSE ret
  /\ inflight' = inflight

\* the number of block elements of doc_id's file (0 when there is none)
BodyLen(doc_id) ==
  IF fs[get_document_path(doc_id)] = NoFile THEN 0
  ELSE Len(fs[get_document_path(doc_id)].body)

CreateDocument ==
  \E d \in DocIds, t \in Titles :
    Commit([op |-> "create_document", doc_id |-> d, title |-> t],
           create_document(fs, d, t))

ReadDocument ==
  \E d \in DocIds :
    Commit([op |-> "read_document", doc_id |-> d], read_document(fs, d))

EnsureStyleExists ==
  \E d \in DocIds, n \in StyleNameArgs, k \in StyleTypeArgs :
    Commit([op |-> "ensure_style_exists", doc_id |-> d, style_name |-> n, style_type |-> k],
           ensure_style_exists(fs, d, n, k))

CreateCustomStyle ==
  \E d \in DocIds, a \in CustomStyleArgs :
    /\ d = "e" => a = <<"Mine", "paragraph", "">>
    /\ Commit([op |-> "create_custom_style", doc_id |-> d, style_name |-> a[1],
               style_type |-> a[2], base_style |-> a[3]],
              create_custom_style(fs, d, a[1], a[2], a[3]))

\* set_section_properties and add_table among calls that fail
SetSectionPropertiesOrFail ==
  \E tg \in OneSectionTargets, pr \in FailingPropertiesArgs :
    Commit([op |-> "set_section_properties", doc_id |-> tg[1], section_index |-> tg[2],
            properties |-> pr],
           set_section_properties(fs, tg[1], tg[2], pr))

AddTableOrFail ==
  \E a \in FailingTableArgs :
    /\ BodyLen("d") < MaxBody
    /\ Commit([op |-> "add_table", doc_id |-> "d", rows |-> a[1], cols |-> a[2],
               data |-> a[3], style |-> a[4]],
              add_table(fs, "d", a[1], a[2], a[3], a[4]))

CheckDocumentExists ==
  \E d \in DocIds :
    Commit([op |-> "check_document_exists", doc_id |-> d], check_document_exists(fs, d))

ListAvailableDocuments ==
  Commit([op |-> "list_available_documents", doc_id |-> "d"], list_available_documents(fs))

AnalyzeDocumentStructure ==
  \E d \in DocIds :
    Commit([op |-> "analyze_document_structure", doc_id |-> d],
           analyze_document_structure(fs, d))

ListTables ==
  \E d \in {"d"} : Commit([op |-> "list_tables", doc_id |-> d], list_tables(fs, d))

GetTableData ==
  \E d \in {"d"}, i \in {-1, 0, 1} :
    Commit([op |-> "get_table_data", doc_id |-> d, table_index |-> i],
           get_table_data(fs, d, i))

ListSections ==
  \E d \in {"d"} : Commit([op |-> "list_sections", doc_id |-> d], list_sections(fs, d))

ListStyles ==
  \E d \in {"d"} : Commit([op |-> "list_styles", doc_id |-> d], list_styles(fs, d))

GetStylesDetail ==
  \E d \in {"d"}, t \in {"", "Table", "list"} :
    Commit([op |-> "get_styles_detail", doc_id |-> d, style_type |-> t],
           get_styles_detail(fs, d, t))

CheckStyleUsage ==
  \E d \in {"d"}, n \in {"Title", "Table Grid", "Bogus"} :
    Commit([op |-> "check_style_usage", doc_id |-> d, style_name |-> n],
           check_style_usage(fs, d, n))

\* get_header_text and get_footer_text on a document of two sections
GetHeaderTextOfTwo ==
  \E tg \in TwoSectionTargets :
    Commit([op |-> "get_header_text", doc_id |-> tg[1], section_index |-> tg[2]],
           get_header_text(fs, tg[1], tg[2]))

GetFooterTextOfTwo ==
  \E i \in {1} :
    Commit([op |-> "get_footer_text", doc_id |-> "d", section_index |-> i],
           get_footer_text(fs, "d", i))

\* add_table with the grid style, and add_header on the first section
AddGridTable ==
  \E dt \in {<<"a">>} :
    /\ BodyLen("d") <= MaxBody
    /\ Commit([op |-> "add_table", doc_id |-> "d", rows |-> 1, cols |-> 1,
               data |-> dt, style |-> "Table Grid"],
              add_table(fs, "d", 1, 1, dt, "Table Grid"))

AddFirstHeader ==
  \E t \in {<<"h">>} :
    Commit([op |-> "add_header", doc_id |-> "d", section_index |-> 0,
            text |-> t, content |-> <<>>],
           add_header(fs, "d", 0, t, <<>>))

\* a client calls get_header_text or get_footer_text
BeginGetText ==
  \E a \in WalkArgs :
    /\ inflight["c1"].at # "reading"
    /\ inflight' = [inflight EXCEPT !["c1"] =
         [at |-> "reading", kind |-> a[1], doc_id |-> a[2], first |-> a[3],
          section_index |-> a[3], loads |-> 0, modified |-> FALSE]]
    /\ UNCHANGED <<fs, prev, call, ret, pcall, pret>>

\* the invocation in progress loads the document and makes its nested call
NestGetText ==
  /\ inflight["c1"].at = "reading"
  /\ hf_invocation(fs, inflight["c1"].doc_id, inflight["c1"].kind,
                   inflight["c1"].section_index).nested
  /\ inflight' = [inflight EXCEPT !["c1"].loads = @ + 1,
                                  !["c1"].section_index =
                                    hf_invocation(fs, inflight["c1"].doc_id, inflight["c1"].kind,
                                                  inflight["c1"].section_index).index]
  /\ UNCHANGED <<fs, prev, call, ret, pcall, pret>>

\* the invocation in progress loads the document and returns, and with it
\* every invocation that waits for it; the call record keeps the number of
\* loads and whether the file was saved meanwhile
ReturnGetText ==
  /\ inflight["c1"].at = "reading"
  /\ ~hf_invocation(fs, inflight["c1"].doc_id, inflight["c1"].kind,
                    inflight["c1"].section_index).nested
  /\ call' = [op |-> IF inflight["c1"].kind = "header" THEN "get_header_text"
                     ELSE "get_footer_text",
              doc_id |-> inflight["c1"].doc_id, section_index |-> inflight["c1"].first,
              answered |-> inflight["c1"].section_index,
              loads |-> inflight["c1"].loads + 1, modified |-> inflight["c1"].modified]
  /\ ret' = hf_invocation(fs, inflight["c1"].doc_id, inflight["c1"].kind,
                          inflight["c1"].section_index).ret
  /\ prev' = fs
  /\ inflight' = [inflight EXCEPT !["c1"] = Idle]
  /\ UNCHANGED <<fs, pcall, pret>>

\* another client's add_header or remove_header, possibly while the first
\* client's call is in progress
AddHeaderMeanwhile ==
  \E s \in WalkedSections :
    /\ fs' = add_header(fs, "d", s, <<"h">>, <<>>).files
    /\ ret' = add_header(fs, "d", s, <<"h">>, <<>>).ret
    /\ call' = [op |-> "add_header", doc_id |-> "d", section_index |-> s,
                text |-> <<"h">>, content |-> <<>>]
    /\ prev' = fs
    /\ inflight' = [inflight EXCEPT !["c1"] =
                      IF @.at = "reading" THEN [@ EXCEPT !.modified = TRUE] ELSE @]
    /\ UNCHANGED <<pcall, pret>>

RemoveHeaderMeanwhile ==
  \E s \in WalkedSections :
    /\ fs' = remove_header(fs, "d", s).files
    /\ ret' = remove_header(fs, "d", s).ret
    /\ call' = [op |-> "remove_header", doc_id |-> "d", section_index |-> s]
    /\ prev' = fs
    /\ inflight' = [inflight EXCEPT !["c1"] =
                      IF @.at = "reading" THEN [@ EXCEPT !.modified = TRUE] ELSE @]
    /\ UNCHANGED <<pcall, pret>>

AddParagraph ==
  \E d \in DocIds, t \in ParaTexts, s \in ParaStyleArgs, f \in ParaFormatArgs :
    /\ BodyLen(d) < MaxBody
    /\ Commit([op |-> "add_paragraph", doc_id |-> d, text |-> t, style |-> s,
               formatting |-> f],
              add_paragraph(fs, d, t, s, f))

AddTable ==
  \E tg \in TableTargets, dt \in DataArgs, s \in TableStyleArgs :
    /\ \A d \in DocIds : BodyLen(d) < MaxBody
    /\ Commit([op |-> "add_table", doc_id |-> tg[1], rows |-> tg[2], cols |-> tg[3],
               data |-> dt, style |-> s],
              add_table(fs, tg[1], tg[2], tg[3], dt, s))

AddHeading ==
  \E d \in DocIds, t \in HeadingTexts, l \in LevelArgs, f \in HeadingFormatArgs :
    /\ BodyLen(d) < MaxBody
    /\ Commit([op |-> "add_heading", doc_id |-> d, text |-> t, level |-> l,
               formatting |-> f],
              add_heading(fs, d, t, l, f))

\* no cell of any table of doc_id's file is merged
Unmerged(doc_id) ==
  \A k \in 1..BodyLen(doc_id) :
    fs[get_document_path(doc_id)].body[k].kind = "tbl"
      => fs[get_document_path(doc_id)].body[k].merged = {}

\* merges are followed on documents whose tables have no merged cell yet
MergeTableCells ==
  \E a \in MergeArgs :
    /\ Unmerged(a[1][1])
    /\ Commit([op |-> "merge_table_cells", doc_id |-> a[1][1], table_index |-> a[1][2],
               start_row |-> a[2][1], start_col |-> a[2][2],
               end_row |-> a[3][1], end_col |-> a[3][2]],
              merge_table_cells(fs, a[1][1], a[1][2], a[2][1], a[2][2], a[3][1], a[3][2]))

ToolsAddTable ==
  \E a \in ToolsTableArgs :
    /\ \A p \in Paths : (IF fs[p] = NoFile THEN 0 ELSE Len(fs[p].body)) < MaxBody
    /\ Commit([op |-> "tools_add_table", documents_dir |-> a[1], doc_id |-> a[2],
               rows |-> a[3], cols |-> a[4], data |-> a[5], style |-> a[6]],
              tools_add_table(fs, a[1], a[2], a[3], a[4], a[5], a[6]))

ToolsGetTableData ==
  \E a \in ToolsDataArgs :
    Commit([op |-> "tools_get_table_data", doc_id |-> a[1], table_index |-> a[2]],
           tools_get_table_data(fs, a[1], a[2]))

ToolsChangePageOrientation ==
  \E a \in ToolsOrientationArgs :
    Commit([op |-> "tools_change_page_orientation", documents_dir |-> a[1], doc_id |-> a[2],
            section_index |-> a[3], orientation |-> a[4]],
           tools_change_page_orientation(fs, a[1], a[2], a[3], a[4]))

\* a client's add_paragraph runs as far as "document = load_document(doc_id)"
BeginAddParagraph ==
  \E c \in Clients, a \in RaceArgs :
    /\ inflight[c].at # "loaded"
    /\ BodyLen(a[1]) < MaxBody
    /\ inflight' = [inflight EXCEPT ![c] =
         [at |-> "loaded", doc_id |-> a[1], text |-> a[2], formatting |-> a[3],
          ld |-> load_document(fs, a[1])]]
    /\ UNCHANGED <<fs, prev, call, ret, pcall, pret>>

\* some other client's call on doc_id has loaded and not saved
OtherLoaded(c, doc_id) ==
  \E o \in Clients \ {c} : inflight[o].at = "loaded" /\ inflight[o].doc_id = doc_id

\* some other client's call on doc_id returned after saving while this
\* client's call was loaded, and that client has made no call since
OtherSavedFirst(c, doc_id) ==
  \E o \in Clients \ {c} :
    /\ inflight[o].at = "returned"
    /\ inflight[o].doc_id = doc_id
    /\ inflight[o].first

\* the client's add_paragraph runs from there to its return; the call record
\* keeps what the call had loaded and whether it came second of two calls in
\* progress together
FinishAddParagraph ==
  \E c \in Clients :
    /\ inflight[c].at = "loaded"
    /\ fs' = add_paragraph_loaded(fs, inflight[c].doc_id, inflight[c].ld, inflight[c].text,
                                  "", inflight[c].formatting).files
    /\ ret' = add_paragraph_loaded(fs, inflight[c].doc_id, inflight[c].ld, inflight[c].text,
                                   "", inflight[c].formatting).ret
    /\ prev' = fs
    /\ call' = [op |-> "add_paragraph", client |-> c, doc_id |-> inflight[c].doc_id,
                text |-> inflight[c].text, style |-> "",
                formatting |-> inflight[c].formatting,
                loaded |-> inflight[c].ld.doc,
                second |-> OtherSavedFirst(c, inflight[c].doc_id)]
    /\ pcall' = call
    /\ pret' = ret
    /\ inflight' = [inflight EXCEPT ![c] =
         [at |-> "returned", doc_id |-> inflight[c].doc_id,
          first |-> OtherLoaded(c, inflight[c].doc_id)]]

ConvertToPdf ==
  \E d \in DocIds, o \in ConvertOutcomes :
    Commit([op |-> "convert_to_pdf", doc_id |-> d, outcome |-> o],
           convert_to_pdf(fs, d, o))

CreateCompleteDocument ==
  \E a \in CompleteArgs :
    Commit([op |-> "create_complete_document", doc_id |-> a[1], title |-> a[2],
            content |-> a[3], append |-> FALSE],
           create_complete_document(fs, a[1], a[2], a[3]))

UpdateDocument ==
  \E a \in UpdateArgs :
    /\ a[4] => \A d \in DocIds : BodyLen(d) < MaxBody
    /\ Commit([op |-> "update_document", doc_id |-> a[1], title |-> a[2],
               content |-> a[3], append |-> a[4]],
              update_document(fs, a[1], a[2], a[3], a[4]))

AddSection ==
  \E d \in DocIds, t \in StartTypeArgs :
    /\ d = "e" => t = "NEW_PAGE"
    /\ fs[get_document_path(d)] # NoFile =>
         Len(fs[get_document_path(d)].sections) < MaxSections
    /\ Commit([op |-> "add_section", doc_id |-> d, start_type |-> t],
              add_section(fs, d, t))

SetSectionProperties ==
  \E tg \in OneSectionTargets, pr \in PropertiesArgs :
    Commit([op |-> "set_section_properties", doc_id |-> tg[1], section_index |-> tg[2],
            properties |-> pr],
           set_section_properties(fs, tg[1], tg[2], pr))

ChangePageOrientation ==
  \E tg \in OneSectionTargets, o \in OrientationArgs :
    Commit([op |-> "change_page_orientation", doc_id |-> tg[1], section_index |-> tg[2],
            properties |-> [orientation |-> o]],
           change_page_orientation(fs, tg[1], tg[2], o))

AddHeader ==
  \E a \in HeaderArgs :
    Commit([op |-> "add_header", doc_id |-> a[1][1], section_index |-> a[1][2],
            text |-> a[2], content |-> a[3]],
           add_header(fs, a[1][1], a[1][2], a[2], a[3]))

AddFooter ==
  \E a \in FooterArgs :
    Commit([op |-> "add_footer", doc_id |-> a[1][1], section_index |-> a[1][2],
            text |-> a[2], content |-> a[3]],
           add_footer(fs, a[1][1], a[1][2], a[2], a[3]))

RemoveHeader ==
  \E tg \in SectionTargets :
    Commit([op |-> "remove_header", doc_id |-> tg[1], section_index |-> tg[2]],
           remove_header(fs, tg[1], tg[2]))

RemoveFooter ==
  \E tg \in SectionTargets :
    Commit([op |-> "remove_footer", doc_id |-> tg[1], section_index |-> tg[2]],
           remove_footer(fs, tg[1], tg[2]))

AddZonedHeader ==
  \E tg \in TwoSectionTargets, z \in ZoneTexts :
    Commit([op |-> "add_zoned_header", doc_id |-> tg[1], section_index |-> tg[2],
            left_text |-> z[1], center_text |-> z[2], right_text |-> z[3]],
           add_zoned_header(fs, tg[1], tg[2], z[1], z[2], z[3]))

AddZonedFooter ==
  \E tg \in TwoSectionTargets, z \in ZoneTexts :
    Commit([op |-> "add_zoned_footer", doc_id |-> tg[1], section_index |-> tg[2],
            left_text |-> z[1], center_text |-> z[2], right_text |-> z[3]],
           add_zoned_footer(fs, tg[1], tg[2], z[1], z[2], z[3]))

\* add_header, add_footer, remove_header and remove_footer on a document of
\* two sections
AddHeaderOfTwo ==
  \E tg \in TwoSectionTargets :
    Commit([op |-> "add_header", doc_id |-> tg[1], section_index |-> tg[2],
            text |-> <<"h">>, content |-> <<>>],
           add_header(fs, tg[1], tg[2], <<"h">>, <<>>))

AddFooterOfTwo ==
  \E tg \in TwoSectionTargets :
    Commit([op |-> "add_footer", doc_id |-> tg[1], section_index |-> tg[2],
            text |-> <<"f">>, content |-> <<>>],
           add_footer(fs, tg[1], tg[2], <<"f">>, <<>>))

RemoveHeaderOfTwo ==
  \E tg \in TwoSectionTargets :
    Commit([op |-> "remove_header", doc_id |-> tg[1], section_index |-> tg[2]],
           remove_header(fs, tg[1], tg[2]))

RemoveFooterOfTwo ==
  \E tg \in TwoSectionTargets :
    Commit([op |-> "remove_footer", doc_id |-> tg[1], section_index |-> tg[2]],
           remove_footer(fs, tg[1], tg[2]))

\* add_header with a content list, on a document of two sections
AddHeaderContent ==
  \E tg \in TwoSectionTargets, t \in {<<>>, <<"h">>}, c \in HeaderContentArgs :
    /\ tg[1] = "e" => (t = <<>> /\ c = <<HeadingH>>)
    /\ Commit([op |-> "add_header", doc_id |-> tg[1], section_index |-> tg[2],
               text |-> t, content |-> c],
              add_header(fs, tg[1], tg[2], t, c))

\* add_footer with a content list, on the first section
AddFooterContent ==
  \E c \in FooterContentArgs :
    Commit([op |-> "add_footer", doc_id |-> "d", section_index |-> 0,
            text |-> <<"f">>, content |-> c],
           add_footer(fs, "d", 0, <<"f">>, c))

GetHeaderText ==
  \E tg \in SectionTargets :
    Commit([op |-> "get_header_text", doc_id |-> tg[1], section_index |-> tg[2]],
           get_header_text(fs, tg[1], tg[2]))

GetFooterText ==
  \E tg \in SectionTargets :
    Commit([op |-> "get_footer_text", doc_id |-> tg[1], section_index |-> tg[2]],
           get_footer_text(fs, tg[1], tg[2]))

\* the number of runs in the body of doc_id's file (0 when there is none)
RECURSIVE CountRuns(_)
CountRuns(body) ==
  IF body = <<>> THEN 0
  ELSE (IF Head(body).kind = "p" THEN Len(Head(body).runs) ELSE 0) + CountRuns(Tail(body))

RunCount(doc_id) ==
  IF fs[get_document_path(doc_id)] = NoFile THEN 0
  ELSE CountRuns(fs[get_document_path(doc_id)].body)

AddFormattedText ==
  \E tg \in ParaTargets, t \in RunTexts, f \in RunFormatArgs :
    /\ RunCount(tg[1]) < MaxRuns
    /\ Commit([op |-> "add_formatted_text", doc_id |-> tg[1], paragraph_index |-> tg[2],
               text |-> t, formatting |-> f],
              add_formatted_text(fs, tg[1], tg[2], t, f))

SetParagraphProperties ==
  \E tg \in ParaTargets, f \in PropFormatArgs :
    Commit([op |-> "set_paragraph_properties", doc_id |-> tg[1], paragraph_index |-> tg[2],
            formatting |-> f],
           set_paragraph_properties(fs, tg[1], tg[2], f))

SetParagraphValues ==
  \E tg \in ParaTargets, f \in ValueFormatArgs :
    Commit([op |-> "set_paragraph_properties", doc_id |-> tg[1], paragraph_index |-> tg[2],
            formatting |-> f],
           set_paragraph_properties(fs, tg[1], tg[2], f))

SetTextProperties ==
  \E tg \in ParaTargets, j \in RunIndexArgs, f \in RunFormatArgs :
    Commit([op |-> "set_text_properties", doc_id |-> tg[1], paragraph_index |-> tg[2],
            run_index |-> j, formatting |-> f],
           set_text_properties(fs, tg[1], tg[2], j, f))

\* the file system after create_document("d", "a"): one document, "e" absent
OneDocument == create_document([p \in Paths |-> NoFile], "d", <<"a">>).files

\* no call made yet, the last two calls followed
InitCalls ==
  /\ call = NoCall
  /\ ret = NoRet
  /\ pcall = NoCall
  /\ pret = NoRet
  /\ inflight = [c \in Clients |-> Idle]

\* no call made yet, only the last call followed
InitLastCall ==
  /\ call = NoCall
  /\ ret = NoRet
  /\ pcall = Untracked
  /\ pret = NoRet
  /\ inflight = [c \in Clients |-> Idle]

-----------------------------------------------------------------------------
(* Style materialization: ensure_style_exists, twice in a row *)

InitEnsure ==
  /\ fs = OneDocument
  /\ prev = OneDocument
  /\ InitCalls

NextEnsure == EnsureStyleExists

SpecEnsure == InitEnsure /\ [][NextEnsure]_vars

-----------------------------------------------------------------------------
(* Paragraphs with a style: add_paragraph on an existing document *)

InitStyle ==
  /\ fs = OneDocument
  /\ prev = OneDocument
  /\ InitLastCall

NextStyle == AddParagraph

SpecStyle == InitStyle /\ [][NextStyle]_vars

-----------------------------------------------------------------------------
(* Round trip: create_document and read_document *)

NoFiles == [p \in Paths |-> NoFile]

InitRoundTrip ==
  /\ fs = NoFiles
  /\ prev = NoFiles
  /\ InitCalls

NextRoundTrip == CreateDocument \/ ReadDocument

SpecRoundTrip == InitRoundTrip /\ [][NextRoundTrip]_vars

-----------------------------------------------------------------------------
(* Paragraph and run properties on a two-paragraph document *)

\* the file system after create_document("d", "a") and add_paragraph("d", ""):
\* a titled document whose second paragraph has no run
TwoParagraphs == add_paragraph(OneDocument, "d", <<>>, "", <<>>).files

InitPara ==
  /\ fs = TwoParagraphs
  /\ prev = TwoParagraphs
  /\ InitLastCall

NextPara == SetParagraphProperties

SpecPara == InitPara /\ [][NextPara]_vars

NextIndex == AddFormattedText \/ SetParagraphProperties \/ SetTextProperties

SpecIndex == InitPara /\ [][NextIndex]_vars

-----------------------------------------------------------------------------
(* Tables added to a titled document *)

NextTable == AddTable

SpecTable == InitStyle /\ [][NextTable]_vars

-----------------------------------------------------------------------------
(* Headers and footers of a document of three sections *)

\* the file system after create_document("d", "a") and two add_section("d")
ThreeSections ==
  add_section(add_section(OneDocument, "d", "NEW_PAGE").files, "d", "NEW_PAGE").files

InitHeader ==
  /\ fs = ThreeSections
  /\ prev = ThreeSections
  /\ InitLastCall

NextHeader ==
  \/ AddHeader
  \/ AddFooter
  \/ RemoveHeader
  \/ RemoveFooter
  \/ GetHeaderText
  \/ GetFooterText

SpecHeader == InitHeader /\ [][NextHeader]_vars

-----------------------------------------------------------------------------
(* Page geometry of a document of one section *)

NextSection == SetSectionProperties \/ ChangePageOrientation

SpecSection == InitStyle /\ [][NextSection]_vars

-----------------------------------------------------------------------------
(* Whole documents from content lists *)

InitContent ==
  /\ fs = NoFiles
  /\ prev = NoFiles
  /\ InitLastCall

NextContent == CreateCompleteDocument \/ UpdateDocument

SpecContent == InitContent /\ [][NextContent]_vars

-----------------------------------------------------------------------------
(* Headings added to a document of the default template and to one without
   the "Heading 1" style *)

\* a document written by another program: one paragraph, the styles of the
\* default template except "Heading 1"
PlainDocument ==
  [body |-> <<NewParagraph(<<"a">>)>>,
   styles |-> {s \in DefaultStyles : s.name # "heading 1"},
   sections |-> <<DefaultSection>>]

\* "d" created by create_document; "e" absent or the plain document
HeadingFiles ==
  { OneDocument, [OneDocument EXCEPT ![get_document_path("e")] = PlainDocument] }

InitHeading ==
  /\ fs \in HeadingFiles
  /\ prev = fs
  /\ InitLastCall

NextHeading == AddHeading

SpecHeading == InitHeading /\ [][NextHeading]_vars

-----------------------------------------------------------------------------
(* Merging cells in a document of two tables *)

\* the file system after create_document("d", "a"), add_table("d", 2, 2,
\* "a,b,c,d") and add_table("d", 1, 2, "e,f")
TwoTables ==
  add_table(add_table(OneDocument, "d", 2, 2, <<"a", ",", "b", ",", "c", ",", "d">>, "").files,
            "d", 1, 2, <<"e", ",", "f">>, "").files

InitMerge ==
  /\ fs = TwoTables
  /\ prev = TwoTables
  /\ InitLastCall

NextMerge == MergeTableCells

SpecMerge == InitMerge /\ [][NextMerge]_vars

-----------------------------------------------------------------------------
(* The table tools on a titled document *)

InitTools ==
  /\ fs = OneDocument
  /\ prev = OneDocument
  /\ InitCalls

NextTools == ToolsAddTable \/ ToolsGetTableData

SpecTools == InitTools /\ [][NextTools]_vars

-----------------------------------------------------------------------------
(* Two clients adding paragraphs at once *)

NextRace == BeginAddParagraph \/ FinishAddParagraph

SpecRace == InitEnsure /\ [][NextRace]_vars

-----------------------------------------------------------------------------
(* PDF conversion between changes of a document *)

NextPdf == AddHeading \/ ConvertToPdf

SpecPdf == InitStyle /\ [][NextPdf]_vars

-----------------------------------------------------------------------------
(* Paragraph properties by the kind of their values *)

NextValues == SetParagraphValues

SpecValues == InitPara /\ [][NextValues]_vars

-----------------------------------------------------------------------------
(* Header and footer linkage of a document of two sections *)

\* the file system after create_document("d", "a") and add_section("d")
TwoSections == add_section(OneDocument, "d", "NEW_PAGE").files

InitLink ==
  /\ fs = TwoSections
  /\ prev = TwoSections
  /\ InitLastCall

NextLink ==
  \/ AddHeaderOfTwo
  \/ AddZonedHeader
  \/ RemoveHeaderOfTwo
  \/ AddFooterOfTwo
  \/ AddZonedFooter
  \/ RemoveFooterOfTwo

SpecLink == InitLink /\ [][NextLink]_vars

-----------------------------------------------------------------------------
(* Sections added to a document of one section *)

NextAddSection == AddSection

SpecAddSection == InitStyle /\ [][NextAddSection]_vars

-----------------------------------------------------------------------------
(* Content lists in headers and footers *)

NextHeaderContent == AddHeaderContent \/ AddFooterContent

SpecHeaderContent == InitLink /\ [][NextHeaderContent]_vars

-----------------------------------------------------------------------------
(* The orientation tool on a document of two sections *)

NextToolsOrientation == ToolsChangePageOrientation

SpecToolsOrientation == InitLink /\ [][NextToolsOrientation]_vars

-----------------------------------------------------------------------------
(* Calls that fail: styles, tables and page geometry of a titled document *)

NextFailing ==
  \/ CreateCustomStyle
  \/ EnsureStyleExists
  \/ SetSectionPropertiesOrFail
  \/ AddTableOrFail

SpecFailing == InitStyle /\ [][NextFailing]_vars

-----------------------------------------------------------------------------
(* The read tools, among calls that add a table and a header, on a document
   of two sections *)

InitReads ==
  /\ fs = TwoSections
  /\ prev = TwoSections
  /\ InitCalls

NextReads ==
  \/ ReadDocument
  \/ CheckDocumentExists
  \/ ListAvailableDocuments
  \/ AnalyzeDocumentStructure
  \/ ListTables
  \/ GetTableData
  \/ ListSections
  \/ ListStyles
  \/ GetStylesDetail
  \/ CheckStyleUsage
  \/ GetHeaderTextOfTwo
  \/ GetFooterTextOfTwo
  \/ AddGridTable
  \/ AddFirstHeader

SpecReads == InitReads /\ [][NextReads]_vars

-----------------------------------------------------------------------------
(* get_header_text and get_footer_text load by load, on a document of three
   sections whose headers other calls define and remove meanwhile; a call in
   progress goes on running *)

NextWalk ==
  \/ BeginGetText
  \/ NestGetText
  \/ ReturnGetText
  \/ AddHeaderMeanwhile
  \/ RemoveHeaderMeanwhile

SpecWalk ==
  /\ InitHeader
  /\ [][NextWalk]_vars
  /\ WF_vars(NestGetText \/ ReturnGetText)

-----------------------------------------------------------------------------
(* Claims *)

\* the file of the last call's document, after and before the call
FileNow == fs[get_document_path(call.doc_id)]
FileBefore == prev[get_document_path(call.doc_id)]

\* C1: for an existing document and a style name the document library resolves
\* to a style of the requested kind, the second of two ensure_style_exists
\* calls in a row with the same name and kind returns "already exists", and the
\* style collection holds exactly one style of that name and kind.
C1_EnsureTwiceAlreadyExists ==
  ( /\ call.op = "ensure_style_exists"
    /\ pcall = call
    /\ FileBefore # NoFile
    /\ Lower(call.style_type) \in StyleTypeMap
    /\ get_style_id(FileBefore, call.style_name, Lower(call.style_type)).exc = "" )
  => /\ ret.msg = "StyleAlreadyExists"
     /\ Cardinality({s \in FileNow.styles :
                       StyleName(s) = call.style_name /\ s.type = Lower(call.style_type)}) = 1

\* C10: add_paragraph with a style name that no style of the document
\* resolves (and a formatting map that applies) does not fail: the text is
\* appended after the existing body as a paragraph without a style, the
\* document is saved, and the message is the style-not-found warning.
C10_UnresolvedStyleDegrades ==
  ( /\ call.op = "add_paragraph"
    /\ FileBefore # NoFile
    /\ call.style # ""
    /\ StylesGetItem(FileBefore, call.style) = NoStyle
    /\ apply_paragraph_formatting(DefaultParaFormat, call.formatting).exc = "" )
  => /\ ret = [kind |-> "warning", msg |-> "WarningStyleNotFound"]
     /\ FileNow # FileBefore
     /\ LET b == FileNow.body
        IN /\ Len(b) > Len(FileBefore.body)
           /\ SubSeq(b, 1, Len(FileBefore.body)) = FileBefore.body
           /\ b[Len(b)].kind = "p"
           /\ b[Len(b)].style = ""
           /\ ParaText(b[Len(b)]) = call.text

\* C10 witness: a paragraph was added with a style no style of the document resolves
C10_Witness ==
  /\ call.op = "add_paragraph"
  /\ call.style = "Bogus"
  /\ call.text = <<"b">>
  /\ ret.msg = "WarningStyleNotFound"
  /\ fs # prev

\* text.split('\n')[0]
FirstLine(text) == Split(text, NL)[1]

HasLineBreak(text) == \E i \in 1..Len(text) : text[i] = NL

\* read_document(doc_id) was called right after create_document(doc_id, title)
C2_ReadAfterCreate ==
  /\ call.op = "read_document"
  /\ pcall.op = "create_document"
  /\ pcall.doc_id = call.doc_id

\* C2 (as claimed): for every doc_id and every title, create_document followed
\* at once by read_document returns text whose first line is the title.
C2_FirstLineIsTitle ==
  C2_ReadAfterCreate => (ret.msg = "Text" /\ FirstLine(ret.text) = pcall.title)

\* C2 (amended): for every doc_id and every title without a line break,
\* create_document followed at once by read_document returns text whose first
\* line is the title, whether or not the document existed before.
C2_FirstLineIsTitleNoBreak ==
  (C2_ReadAfterCreate /\ ~HasLineBreak(pcall.title))
  => (ret.msg = "Text" /\ FirstLine(ret.text) = pcall.title)

\* C2 witness: a two-character title read back right after its creation
C2_Witness ==
  /\ C2_ReadAfterCreate
  /\ pcall.title = <<"a", "a">>
  /\ ret.msg = "Text"
  /\ ret.text = <<"a", "a">>

\* the key is absent from the formatting map, or present with the value None
AbsentOrNone(formatting, key) == Get(formatting, key) = NoneVal

\* the index names a paragraph of the document
InRange(document, paragraph_index) ==
  paragraph_index >= 0 /\ paragraph_index < Len(Paragraphs(document))

\* C3: after set_paragraph_properties(doc_id, paragraph_index, formatting) on
\* an existing paragraph, every paragraph property whose key is absent from
\* the map, or None in it, has in the file the value it had before the call.
C3_SparseUpdate ==
  (call.op = "set_paragraph_properties" /\ FileBefore # NoFile
     /\ InRange(FileBefore, call.paragraph_index)) =>
    /\ FileNow # NoFile
    /\ Len(FileNow.body) = Len(FileBefore.body)
    /\ \A key \in DOMAIN DefaultParaFormat :
         AbsentOrNone(call.formatting, key) =>
           FileNow.body[ParaPos(FileBefore, call.paragraph_index)].pf[key]
             = FileBefore.body[ParaPos(FileBefore, call.paragraph_index)].pf[key]

\* a call that sets the alignment, with space_after absent or None, on a
\* paragraph whose space_after had been set
C3_Witness ==
  /\ call.op = "set_paragraph_properties"
  /\ ret.kind = "ok"
  /\ FileBefore # NoFile
  /\ InRange(FileBefore, call.paragraph_index)
  /\ AbsentOrNone(call.formatting, "space_after")
  /\ Get(call.formatting, "alignment") # NoneVal
  /\ FileBefore.body[ParaPos(FileBefore, call.paragraph_index)].pf["space_after"] # <<>>
  /\ FileNow.body[ParaPos(FileBefore, call.paragraph_index)].pf["alignment"]
       # FileBefore.body[ParaPos(FileBefore, call.paragraph_index)].pf["alignment"]

IndexedOps == {"add_formatted_text", "set_paragraph_properties", "set_text_properties"}

\* C5: add_formatted_text, set_paragraph_properties and set_text_properties on
\* an existing document with a paragraph_index that is negative or not less
\* than the number of paragraphs return the out-of-range error and leave the
\* file as it was, so no paragraph or run is created.
C5_IndexOutOfRange ==
  (call.op \in IndexedOps /\ FileBefore # NoFile
     /\ ~InRange(FileBefore, call.paragraph_index)) =>
    /\ ret = [kind |-> "error", msg |-> "ParagraphIndexOutOfRange"]
    /\ fs = prev

\* add_formatted_text was called with a negative index on a document that
\* has paragraphs
C5_Witness ==
  /\ call.op = "add_formatted_text"
  /\ FileBefore # NoFile
  /\ call.paragraph_index < 0
  /\ Len(Paragraphs(FileBefore)) > 0
  /\ ret.kind = "error"

\* the values of the data argument: none when it is empty, else the pieces
\* between the commas
DataValues(data) == IF data = <<>> THEN <<>> ELSE Split(data, ",")

\* add_table was called on an existing document with a style that is absent
\* or that the document resolves to a table style
TableCall ==
  /\ call.op = "add_table"
  /\ FileBefore # NoFile
  /\ (call.style = "" \/ get_style_id(FileBefore, call.style, "table").exc = "")

\* the table appended to the file by the call
AddedTable == FileNow.body[Len(FileNow.body)]

\* C4: add_table with n values in data, on an existing document: for
\* n <= rows*cols it succeeds and the saved file ends with a rows x cols table
\* whose cell (i,j) holds value i*cols+j trimmed, or nothing when there is no
\* such value; for n > rows*cols it returns the dimension error and the file
\* is unchanged.
C4_TablePaddingOrRejection ==
  TableCall =>
    LET n == Len(DataValues(call.data))
    IN IF n <= call.rows * call.cols
       THEN /\ ret = [kind |-> "ok", msg |-> "TableAdded"]
            /\ FileNow.body = Append(FileBefore.body, AddedTable)
            /\ AddedTable.kind = "tbl"
            /\ AddedTable.rows = call.rows /\ AddedTable.cols = call.cols
            /\ \A i \in 0..(call.rows - 1), j \in 0..(call.cols - 1) :
                 AddedTable.cells[i][j] =
                   IF i * call.cols + j < n
                   THEN Strip(DataValues(call.data)[i * call.cols + j + 1])
                   ELSE <<>>
       ELSE /\ ret = [kind |-> "error", msg |-> "DataExceedsDimensions"]
            /\ fs = prev

\* a 2x2 table was added from two values, the first with blanks around it
C4_Witness ==
  /\ TableCall
  /\ call.rows = 2 /\ call.cols = 2
  /\ Len(DataValues(call.data)) = 2
  /\ call.data # Join(<<AddedTable.cells[0][0], AddedTable.cells[0][1]>>, ",")
  /\ AddedTable.cells[1][1] = <<>>
  /\ ret.kind = "ok"

\* the kind of header the call reads
CallKind == IF call.op = "get_header_text" THEN "header" ELSE "footer"

\* the header or footer of section j of the file the call read
HFOf(j) == FileBefore.sections[j + 1][CallKind]

\* the sections before s whose header or footer has a definition of its own
DefinedBefore(s) == {j \in 0..(s - 1) : ~HFOf(j).linked}

\* the paragraph texts of a header or footer, one per line
HFText(hf) == Join([k \in 1..Len(hf.paras) |-> ConcatRuns(hf.paras[k].runs)], NL)

\* a get_header_text or get_footer_text call on a section s of the document
\* whose header or footer is linked to previous
LinkedCall ==
  /\ call.op \in {"get_header_text", "get_footer_text"}
  /\ FileBefore # NoFile
  /\ call.section_index \in 0..(Len(FileBefore.sections) - 1)
  /\ HFOf(call.section_index).linked

\* C6: get_header_text on a section s whose header is linked returns, naming
\* section j, the text of the nearest section j < s whose header is not
\* linked, and the 'no header defined' message when there is no such section;
\* get_footer_text does the same with footers.
C6_LinkedHeaderText ==
  LinkedCall =>
    IF DefinedBefore(call.section_index) = {}
    THEN ret = [kind |-> "ok", msg |-> "NoneDefined"]
    ELSE LET j == CHOOSE j \in DefinedBefore(call.section_index) :
                    \A i \in DefinedBefore(call.section_index) : i <= j
         IN /\ ret.msg = "LinkedTo"
            /\ ret.section = j
            /\ ret.content = [kind |-> "ok", msg |-> "Text", text |-> HFText(HFOf(j))]

\* get_header_text on section 2, linked like section 1, with headers of
\* different texts on sections 0 and 1 before: the text comes from section 0
\* or 1, whichever is nearest
C6_Witness ==
  /\ LinkedCall
  /\ call.op = "get_header_text"
  /\ call.section_index = 2
  /\ ~HFOf(0).linked /\ ~HFOf(1).linked
  /\ HFText(HFOf(0)) # HFText(HFOf(1))
  /\ ret.msg = "LinkedTo"

\* the section the call names, before and after the call
SectionBefore == FileBefore.sections[call.section_index + 1]
SectionNow == FileNow.sections[call.section_index + 1]

\* set_section_properties or change_page_orientation was called on a section
\* of the document with an orientation, PORTRAIT or LANDSCAPE in any case
OrientationCall ==
  /\ call.op \in {"set_section_properties", "change_page_orientation"}
  /\ FileBefore # NoFile
  /\ call.section_index \in 0..(Len(FileBefore.sections) - 1)
  /\ "orientation" \in DOMAIN call.properties
  /\ Upper(call.properties["orientation"].s) \in {"LANDSCAPE", "PORTRAIT"}

\* the orientation asked for is not the one the section has
Turns == Upper(call.properties["orientation"].s) # SectionBefore.orientation

Dimensions == {"page_width", "page_height"}

SuppliedDimensions == Dimensions \cap DOMAIN call.properties

\* int(float(x) * 914400) for a dimension the call supplies
SuppliedEmu(key) == (call.properties[key].v * 914400) \div 100

RestAccepted ==
  /\ "start_type" \in DOMAIN call.properties =>
        Upper(call.properties["start_type"].s) \in DOMAIN SectionTypes
  /\ \A key \in DOMAIN call.properties \ {"start_type", "orientation"} :
        call.properties[key].t = "num"

\* the nearest whole number of twips (635 EMU) to a length
NearestTwip(emu) ==
  CHOOSE t \in {k * 635 : k \in (emu \div 635)..(emu \div 635 + 1)} :
    \A u \in {k * 635 : k \in (emu \div 635)..(emu \div 635 + 1)} :
      (IF t > emu THEN t - emu ELSE emu - t) <= (IF u > emu THEN u - emu ELSE emu - u)

ContentCall == call.op \in {"create_complete_document", "update_document"}

BlockType(item) == Lower(GetOr(item, "type", ""))

\* the body the expander started from: the existing body when appending,
\* and the title heading when there is a title
BaseBody ==
  LET n == Len(FileNow.body)
      old == IF call.op = "update_document" /\ call.append THEN FileBefore.body ELSE <<>>
  IN IF call.title = <<>> THEN old ELSE SubSeq(FileNow.body, 1, Len(old) + 1)

\* C8: after a successful create_complete_document or update_document the
\* body is what it was before the blocks (existing elements and title)
\* followed by exactly one element per block, in the order of the blocks: a
\* paragraph with the block's text for a heading or paragraph block, a table
\* for a table block.
C8_OneElementPerBlockInOrder ==
  (ContentCall /\ ret.kind = "ok") =>
    /\ call.op = "update_document" /\ call.append =>
         SubSeq(FileNow.body, 1, Len(FileBefore.body)) = FileBefore.body
    /\ Len(FileNow.body) = Len(BaseBody) + Len(call.content)
    /\ \A k \in 1..Len(call.content) :
         LET e == FileNow.body[Len(BaseBody) + k]
         IN IF BlockType(call.content[k]) = "table"
            THEN e.kind = "tbl"
            ELSE e.kind = "p" /\ ConcatRuns(e.runs) = call.content[k].text

\* the values of a table block's data
BlockValues(item) ==
  IF GetOr(item, "data", <<>>) = <<>> THEN <<>> ELSE Split(item.data, ",")

\* a table block with more data values than cells
TooMany(item) ==
  /\ BlockType(item) = "table"
  /\ Len(BlockValues(item)) > GetOr(item, "rows", 1) * GetOr(item, "cols", 1)

\* the call's content list has a table block with too many values
HasTooMany == ContentCall /\ \E k \in 1..Len(call.content) : TooMany(call.content[k])

\* C9 as stated: a call whose content has a table block with more values
\* than rows*cols returns the table-data error and leaves the file as it was.
C9_AllOrNothing ==
  HasTooMany =>
    /\ ret = [kind |-> "error", msg |-> "TableDataMismatch"]
    /\ fs = prev

FirstTooMany ==
  CHOOSE k \in 1..Len(call.content) :
    TooMany(call.content[k]) /\ \A i \in 1..(k - 1) : ~TooMany(call.content[i])

\* the style named by a block, if any, is unknown to the document or of the
\* kind the block needs
StyleAccepted(item, kind) ==
  \/ GetOr(item, "style", "") = ""
  \/ \A st \in DefaultStyles :
       (st.name = ui2internal(item.style) \/ st.style_id = item.style) => st.type = kind

\* every value of a formatting map that must be a number is one
NumbersAccepted(formatting) ==
  \A key \in DOMAIN formatting \ {"alignment"} : formatting[key].t \in {"num", "bool", "none"}

\* the expander gets past the block without raising
BlockAccepted(item) ==
  CASE BlockType(item) = "heading" ->
         /\ GetOr(item, "level", 1) \in 0..9
         /\ NumbersAccepted(GetOr(item, "formatting", <<>>))
    [] BlockType(item) = "paragraph" ->
         /\ StyleAccepted(item, "paragraph")
         /\ NumbersAccepted(GetOr(item, "formatting", <<>>))
    [] BlockType(item) = "table" -> StyleAccepted(item, "table")
    [] OTHER -> TRUE

\* the call gets as far as the data of its first table with too many values:
\* the document exists when appending, the blocks before that table and the
\* table's own style are accepted
ReachesTooMany ==
  /\ call.op = "update_document" /\ call.append => FileBefore # NoFile
  /\ \A i \in 1..(FirstTooMany - 1) : BlockAccepted(call.content[i])
  /\ StyleAccepted(call.content[FirstTooMany], "table")

\* C9 amended: a call whose content has a table block with more values than
\* rows*cols returns an error and leaves every file as it was; the error is
\* the table-data error when the call gets as far as that table's data.
C9_AllOrNothingReached ==
  HasTooMany =>
    /\ ret.kind = "error"
    /\ fs = prev
    /\ ReachesTooMany => ret.msg = "TableDataMismatch"

\* a replacing update_document with a paragraph block and then a table with
\* too many values, on a document that exists
C9_Witness ==
  /\ HasTooMany
  /\ call.op = "update_document" /\ ~call.append
  /\ FirstTooMany > 1
  /\ FileBefore # NoFile
  /\ ret.msg = "TableDataMismatch"

\* C11: add_heading with a level in 0..9 whose heading style no style of the
\* document resolves (and a formatting map that applies) does not fail: the
\* text is appended after the existing body as a paragraph without a style,
\* the document is saved, and the message is a warning, not an error.
C11_HeadingDegrades ==
  ( /\ call.op = "add_heading"
    /\ FileBefore # NoFile
    /\ call.level \in 0..9
    /\ StylesGetItem(FileBefore, HeadingStyle(call.level)) = NoStyle
    /\ apply_paragraph_formatting(DefaultParaFormat, call.formatting).exc = "" )
  => /\ ret.kind = "warning"
     /\ FileNow # FileBefore
     /\ LET b == FileNow.body
        IN /\ Len(b) > Len(FileBefore.body)
           /\ SubSeq(b, 1, Len(FileBefore.body)) = FileBefore.body
           /\ b[Len(b)].kind = "p"
           /\ b[Len(b)].style = ""
           /\ ParaText(b[Len(b)]) = call.text

\* the modelled operations that take a section_index
SectionIndexedOps ==
  { "add_header", "add_footer", "remove_header", "remove_footer",
    "get_header_text", "get_footer_text", "set_section_properties" }

\* C12: an operation that takes a section_index, called on an existing
\* document with an index outside 0 <= section_index < number of sections
\* (negative ones included), returns the out-of-range error and leaves every
\* file as it was.
C12_SectionIndexRange ==
  ( /\ call.op \in SectionIndexedOps
    /\ FileBefore # NoFile
    /\ ~(0 <= call.section_index /\ call.section_index < Len(FileBefore.sections)) )
  => /\ ret = [kind |-> "error", msg |-> "SectionIndexOutOfRange"]
     /\ fs = prev

\* the table numbered table_index before the call, when there is one
TableIndexInRange ==
  0 <= call.table_index /\ call.table_index < Len(Tables(FileBefore))

\* C13: merge_table_cells on an existing document returns an error and saves
\* nothing when table_index is outside 0 <= table_index < number of tables, or
\* start_row < 0, or end_row >= the table's row count, or start_col < 0; when
\* it reports success, the table numbered table_index has exactly the cells
\* between (start_row, start_col) and (end_row, end_col) merged and the other
\* tables are as they were.
C13_MergeValidated ==
  (call.op = "merge_table_cells" /\ FileBefore # NoFile) =>
    /\ ( \/ ~TableIndexInRange
         \/ call.start_row < 0
         \/ call.start_col < 0
         \/ call.end_row >= Tables(FileBefore)[call.table_index + 1].rows )
       => (ret.kind = "error" /\ fs = prev)
    /\ ret.kind = "ok" =>
         /\ TableIndexInRange
         /\ \A k \in 1..Len(Tables(FileNow)) :
              IF k = call.table_index + 1
                THEN Tables(FileNow)[k].merged \subseteq
                       { Span(<<call.start_row, call.start_col>>,
                              <<call.end_row, call.end_col>>) }
              ELSE Tables(FileNow)[k] = Tables(FileBefore)[k]

\* the 2D list an add_table call asked for: its values row by row, '' after them
AskedData(c) ==
  [i \in 1..c.rows |-> [j \in 1..c.cols |->
     IF c.data # <<>> /\ (i - 1) * c.cols + j <= Len(Split(c.data, ","))
       THEN Strip(Split(c.data, ",")[(i - 1) * c.cols + j])
     ELSE <<>>]]

\* C14: a successful add_table of the tool layer changes no file but the one
\* the document was loaded from, and a get_table_data that follows it with
\* the same document name and the returned index returns the table just added.
C14_SavedWhereLoaded ==
  /\ (call.op = "tools_add_table" /\ ret.kind = "ok") =>
       /\ ret.value >= 0
       /\ FileNow # FileBefore
       /\ \A p \in Paths : fs[p] # prev[p] => p = get_document_path(call.doc_id)
  /\ ( /\ call.op = "tools_get_table_data"
       /\ pcall.op = "tools_add_table"
       /\ pcall.doc_id = call.doc_id
       /\ pret.kind = "ok"
       /\ call.table_index = pret.value )
     => (ret.kind = "ok" /\ ret.value = AskedData(pcall))

\* C15: no call of a tool raises to its caller: every call returns a value.
C15_NeverRaises == call.op # "none" => ret.kind # "raised"

\* the last call came second of two add_paragraph calls on one document that
\* had both loaded before either saved, and the call before it was the first
Interleaved ==
  /\ call.op = "add_paragraph"
  /\ call.second
  /\ pcall.op = "add_paragraph"
  /\ pcall.client # call.client
  /\ pcall.doc_id = call.doc_id

\* C16: when two add_paragraph calls on an existing document interleave (both
\* load before either saves) and neither has a formatting value that is
\* refused, both report success, the first save wrote what the first call had
\* loaded with its paragraph, and the file is what the second call had loaded
\* with its paragraph: nothing the first call saved is in it.
C16_LastSaveWins ==
  ( /\ Interleaved
    /\ call.loaded # NoFile
    /\ NumbersAccepted(call.formatting)
    /\ NumbersAccepted(pcall.formatting) )
  => /\ ret = [kind |-> "ok", msg |-> "ParagraphAdded"]
     /\ pret = [kind |-> "ok", msg |-> "ParagraphAdded"]
     /\ FileBefore.body = pcall.loaded.body \o <<NewParagraph(pcall.text)>>
     /\ FileNow.body = call.loaded.body \o <<NewParagraph(call.text)>>

\* two interleaved calls with different texts have both returned
C16_Witness ==
  /\ Interleaved
  /\ call.text = <<"y">>
  /\ pcall.text = <<"x">>
  /\ ret.kind = "ok"
  /\ pret.kind = "ok"
  /\ FileNow # FileBefore

\* C17: convert_to_pdf leaves every .docx file as it was, whether the
\* conversion succeeds, fails, or the document is missing.
C17_ConvertKeepsSource ==
  call.op = "convert_to_pdf" =>
    /\ FileNow = FileBefore
    /\ \A d \in DocIds, dir \in DocumentsDirs :
         /\ fs[get_document_path(d)] = prev[get_document_path(d)]
         /\ fs[documents_path(dir, d)] = prev[documents_path(dir, d)]

\* a conversion of a document with a heading added wrote its PDF
C17_Witness ==
  /\ call.op = "convert_to_pdf"
  /\ ret.kind = "ok"
  /\ fs # prev
  /\ Len(FileNow.body) = 2
  /\ fs[pdf_path(call.doc_id)] = Pdf(FileNow)

\* C18: a call that probes a style with a throwaway element saves no such
\* element: a saved add_paragraph leaves the body as it was with exactly one
\* paragraph, the one asked for, after it.
C18_NoThrowawaySaved ==
  (call.op = "add_paragraph" /\ FileBefore # NoFile /\ FileNow # FileBefore) =>
    /\ Len(FileNow.body) = Len(FileBefore.body) + 1
    /\ SubSeq(FileNow.body, 1, Len(FileBefore.body)) = FileBefore.body
    /\ ParaText(FileNow.body[Len(FileNow.body)]) = call.text

\* the paragraph the last call named, after and before the call
ParaNow == FileNow.body[ParaPos(FileBefore, call.paragraph_index)]
ParaBefore == FileBefore.body[ParaPos(FileBefore, call.paragraph_index)]

\* set_paragraph_properties was called on a paragraph that exists
PropertiesCall ==
  /\ call.op = "set_paragraph_properties"
  /\ FileBefore # NoFile
  /\ InRange(FileBefore, call.paragraph_index)

\* the alignment value of the call is given and none of the four names
UnknownAlignment ==
  /\ Get(call.formatting, "alignment") # NoneVal
  /\ ~( Get(call.formatting, "alignment").t = "str"
        /\ Upper(Get(call.formatting, "alignment").s) \in AlignmentMap )

\* the call's formatting map without one key
Without(key) == [k \in DOMAIN call.formatting \ {key} |-> call.formatting[k]]

\* C19: set_paragraph_properties with an alignment value that is none of
\* LEFT, CENTER, RIGHT, JUSTIFY in any letter case, the other keys of the map
\* being ones the handler accepts, returns no error, leaves the alignment as
\* it was, and saves the other keys as a call without the alignment would.
C19_UnknownAlignmentIgnored ==
  ( /\ PropertiesCall
    /\ UnknownAlignment
    /\ apply_paragraph_formatting(ParaBefore.pf, Without("alignment")).exc = "" )
  => /\ ret.kind = "ok"
     /\ ParaNow.pf = apply_paragraph_formatting(ParaBefore.pf, Without("alignment")).pf
     /\ ParaNow.pf["alignment"] = ParaBefore.pf["alignment"]

\* a line spacing held as a length, in EMU
PointSpacing(emu) == [length |-> emu]

\* the number a string with a unit begins with, in hundredths
LeadingNumber == [s \in {"12pt"} |-> 1200]

\* C20: set_paragraph_properties with a line_spacing, the other keys being
\* ones the handler accepts: a value that parses as a float is stored as a
\* multiple; a value that does not parse but holds a number is stored as that
\* many points; a value with no number in it returns an error and nothing of
\* the map is saved.
C20_LineSpacing ==
  ( /\ PropertiesCall
    /\ Get(call.formatting, "line_spacing") # NoneVal
    /\ apply_paragraph_formatting(ParaBefore.pf, Without("line_spacing")).exc = "" )
  => LET v == Get(call.formatting, "line_spacing")
     IN IF Float(v).exc = ""
          THEN ret.kind = "ok" /\ ParaNow.pf["line_spacing"] = <<Float(v).v>>
        ELSE IF v.t = "str" /\ v.s \in DOMAIN LeadingNumber
          THEN /\ ret.kind = "ok"
               /\ ParaNow.pf["line_spacing"] = <<PointSpacing(Pt(LeadingNumber[v.s]))>>
        ELSE ret.kind = "error" /\ fs = prev

\* the kind of header or footer a call is about
LinkKind ==
  IF call.op \in {"add_header", "add_zoned_header", "remove_header"} THEN "header"
  ELSE "footer"

\* the last call was an add or a remove of a header or footer that succeeded
LinkCall ==
  /\ call.op \in {"add_header", "add_zoned_header", "remove_header",
                  "add_footer", "add_zoned_footer", "remove_footer"}
  /\ ret.kind = "ok"

\* the position of the section the last call's index resolves to
LinkPos == SectionPos(FileBefore, call.section_index)

\* C21: header and footer linkage is one flag per section and kind, linked
\* at the start; a successful add leaves the flag of its section and kind
\* unlinked and a successful remove leaves it linked, every other flag is
\* as it was, and a call that did not succeed changes no flag (so a flag is
\* unlinked exactly when the last successful add or remove on it was an add)
C21_LinkagePerSection ==
  /\ call = NoCall =>
       \A j \in DOMAIN fs[get_document_path("d")].sections :
         /\ fs[get_document_path("d")].sections[j].header.linked
         /\ fs[get_document_path("d")].sections[j].footer.linked
  /\ call # NoCall =>
       IF FileBefore = NoFile THEN fs = prev /\ ~LinkCall
       ELSE /\ Len(FileNow.sections) = Len(FileBefore.sections)
            /\ \A j \in DOMAIN FileNow.sections : \A k \in {"header", "footer"} :
                 IF LinkCall /\ j = LinkPos /\ k = LinkKind
                   THEN FileNow.sections[j][k].linked
                          = (call.op \in {"remove_header", "remove_footer"})
                 ELSE FileNow.sections[j][k].linked = FileBefore.sections[j][k].linked

\* a header removed from a section that had one of its own, while the other
\* section keeps its own header and the section keeps its own footer
C21_Witness ==
  /\ call.op = "remove_header"
  /\ ret.kind = "ok"
  /\ ~FileBefore.sections[LinkPos].header.linked
  /\ FileNow.sections[LinkPos].header.linked
  /\ ~FileNow.sections[LinkPos].footer.linked
  /\ \E j \in DOMAIN FileNow.sections : j # LinkPos /\ ~FileNow.sections[j].header.linked

\* C22: add_section with one of the start types NEW_PAGE, EVEN_PAGE, ODD_PAGE
\* and CONTINUOUS, in any case, appends one section of that start type, saves
\* and returns the success message; with any other start type it returns the
\* invalid-start-type error and saves nothing
C22_FourStartTypes ==
  (call.op = "add_section" /\ FileBefore # NoFile) =>
    IF Upper(call.start_type) \in {"NEW_PAGE", "EVEN_PAGE", "ODD_PAGE", "CONTINUOUS"}
      THEN /\ ret = [kind |-> "ok", msg |-> "SectionAdded"]
           /\ Len(FileNow.sections) = Len(FileBefore.sections) + 1
           /\ FileNow.sections[Len(FileNow.sections)].start_type = Upper(call.start_type)
           /\ SubSeq(FileNow.sections, 1, Len(FileBefore.sections)) = FileBefore.sections
    ELSE /\ ret = [kind |-> "error", msg |-> "InvalidStartType"]
         /\ fs = prev

\* the last call was add_header or add_footer on a section of the document
HFContentCall ==
  /\ call.op \in {"add_header", "add_footer"}
  /\ FileBefore # NoFile
  /\ call.section_index \in 0..(Len(FileBefore.sections) - 1)

\* the texts of the paragraphs the document-level expander adds to an empty
\* document for a content list
ExpandedTexts(content) ==
  LET body == add_content_to_document(NewDocument, content).doc.body
  IN [k \in 1..Len(body) |-> ConcatRuns(body[k].runs)]

\* the texts of the paragraphs a header or footer holds after its first one
ContentTexts(hf) ==
  [k \in 1..(Len(hf.paras) - 1) |-> ConcatRuns(hf.paras[k + 1].runs)]

\* C23: add_header and add_footer treat their content list as the
\* document-level expander does: a list with a table block of more values
\* than rows*cols is rejected with nothing saved, and a list of heading and
\* paragraph blocks adds the texts the expander adds for the same list, the
\* text of a heading block included
C23_HeaderContentAsDocument ==
  HFContentCall =>
    IF \E k \in 1..Len(call.content) : TooMany(call.content[k])
      THEN ret.kind = "error" /\ fs = prev
    ELSE (\A k \in 1..Len(call.content) : BlockType(call.content[k]) # "table") =>
           /\ ret.kind = "ok"
           /\ ContentTexts(FileNow.sections[call.section_index + 1][LinkKind])
                = ExpandedTexts(call.content)

\* C24: add_table on an existing document with a table style name the
\* document cannot resolve returns a warning and still saves the document
\* with the table added, without a style, as the last element of the body
C24_UnresolvedTableStyleStillAdds ==
  (/\ call.op = "add_table"
   /\ FileBefore # NoFile
   /\ call.style # ""
   /\ StylesGetItem(FileBefore, call.style) = NoStyle) =>
    /\ ret.kind = "warning"
    /\ Len(FileNow.body) = Len(FileBefore.body) + 1
    /\ SubSeq(FileNow.body, 1, Len(FileBefore.body)) = FileBefore.body
    /\ FileNow.body[Len(FileNow.body)].kind = "tbl"
    /\ FileNow.body[Len(FileNow.body)].style = ""

\* the elements a replaced document starts with: the title heading, if given
TitleElements == IF call.title = <<>> THEN 0 ELSE 1

\* C25: update_document with append on a document that does not exist
\* returns the does-not-exist message and creates no file; a successful
\* update_document without append leaves a file of the default template
\* holding only the title, if given, followed by one element per content
\* block in order, and nothing of the document before
C25_AppendNeedsFileReplaceStartsAfresh ==
  call.op = "update_document" =>
    /\ (call.append /\ FileBefore = NoFile) =>
         /\ ret = [kind |-> "error", msg |-> "DoesNotExist"]
         /\ fs = prev
    /\ (~call.append /\ ret.kind = "ok") =>
         /\ FileNow.styles = NewDocument.styles
         /\ FileNow.sections = NewDocument.sections
         /\ Len(FileNow.body) = TitleElements + Len(call.content)
         /\ call.title # <<>> =>
              /\ FileNow.body[1].kind = "p"
              /\ ConcatRuns(FileNow.body[1].runs) = call.title
              /\ FileNow.body[1].style = "Title"
         /\ \A k \in 1..Len(call.content) :
              LET e == FileNow.body[TitleElements + k]
              IN IF BlockType(call.content[k]) = "table"
                 THEN e.kind = "tbl"
                 ELSE e.kind = "p" /\ ConcatRuns(e.runs) = call.content[k].text

\* C26: with the tool layer's change_page_orientation, starting from PORTRAIT
\* sections that are higher than wide, every section of every file is
\* LANDSCAPE exactly when it is wider than high, and a call asking for
\* LANDSCAPE on a section that is LANDSCAPE leaves its width and height alone
C26_PhysicallyRotated ==
  /\ \A p \in Paths : fs[p] # NoFile =>
       \A j \in DOMAIN fs[p].sections :
         (fs[p].sections[j].orientation = "LANDSCAPE")
           <=> (fs[p].sections[j].page_width > fs[p].sections[j].page_height)
  /\ ( /\ call.op = "tools_change_page_orientation"
       /\ ret.kind = "ok"
       /\ ret.value
       /\ Upper(call.orientation) = "LANDSCAPE"
       /\ FileBefore.sections[call.section_index + 1].orientation = "LANDSCAPE" )
     => LET was == FileBefore.sections[call.section_index + 1]
            now == fs[documents_path(call.documents_dir, call.doc_id)]
                     .sections[call.section_index + 1]
        IN now.page_width = was.page_width /\ now.page_height = was.page_height

ReadTools ==
  {"read_document", "check_document_exists", "list_available_documents",
   "analyze_document_structure", "list_tables", "get_table_data", "list_sections",
   "list_styles", "get_styles_detail", "check_style_usage", "get_header_text",
   "get_footer_text"}

\* C28: a call of a read tool leaves every file as it was, and a call of a
\* read tool that follows a call with the same tool and arguments returns the
\* same result
C28_ReadsNeverSave ==
  call.op \in ReadTools =>
    /\ fs = prev
    /\ pcall = call => ret = pret

\* a read of a table that a call before the last has added, asked for twice
C28_Witness ==
  /\ call.op = "get_table_data"
  /\ pcall = call
  /\ ret.kind = "ok"
  /\ ret.value = <<<<<<"a">>>>>>
  /\ ~FileNow.sections[1].header.linked

\* the number of sections of the document "d"
SectionCount == Len(fs[get_document_path("d")].sections)

\* a get_header_text or get_footer_text call whose loads were followed
WalkedCall == call.op \in {"get_header_text", "get_footer_text"} /\ "loads" \in DOMAIN call

\* what holds of a call in progress and of a call that has returned: the
\* nested call is on a section index that is smaller by at least one per
\* load and not negative, and a call has loaded the document at most as
\* often as it has sections, at most twice when no save came between
WalkBounded ==
  /\ inflight["c1"].at = "reading" =>
       /\ inflight["c1"].loads < SectionCount
       /\ inflight["c1"].loads > 0 =>
            /\ inflight["c1"].section_index >= 0
            /\ inflight["c1"].section_index + inflight["c1"].loads <= inflight["c1"].first
  /\ WalkedCall =>
       /\ call.loads >= 1
       /\ call.loads <= SectionCount
       /\ ~call.modified => call.loads <= 2

\* C29: get_header_text and get_footer_text always terminate: each nested
\* call is on a strictly smaller section index, never below 0, so a call on
\* a document of n sections loads it at most n times (at most twice when the
\* file is not saved during the call) and then returns
C29_TextWalkTerminates ==
  /\ []WalkBounded
  /\ (inflight["c1"].at = "reading") ~> (inflight["c1"].at = "idle")

\* a call on the last of three sections that loaded the document three
\* times, a header having been removed while it ran
C29_Witness ==
  /\ WalkedCall
  /\ call.section_index = 2
  /\ call.loads = 3
  /\ call.answered = 0
  /\ call.modified
  /\ ret.kind = "ok"

\* C30: an add_paragraph that returns its success message or its warning
\* ("Added without style") appends exactly one paragraph and changes no
\* other: read_document after the call is read_document before it followed
\* by a line break and the text, and document.paragraphs is longer by one,
\* whether or not a style was given or found.
C30_OneMoreLine ==
  (call.op = "add_paragraph" /\ ret.kind \in {"ok", "warning"}) =>
    /\ read_document(fs, call.doc_id).ret.text =
         read_document(prev, call.doc_id).ret.text \o <<NL>> \o call.text
    /\ Len(Paragraphs(FileNow)) = Len(Paragraphs(FileBefore)) + 1
    /\ \A k \in 1..Len(Paragraphs(FileBefore)) :
         Paragraphs(FileNow)[k] = Paragraphs(FileBefore)[k]

====
